---- MODULE Spec2Model ----
(***************************************************************************)
(* A model of the Biscuit cache engine (src/src/biscuit.js, createBiscuit). *)
(*                                                                         *)
(* One engine instance.  JavaScript is single threaded: a handler runs     *)
(* without interruption up to its next await.  Every action below is one   *)
(* such run-to-suspension piece of a handler; the asynchronous calls in    *)
(* flight are the records of procs, one slot per call.  The event loop is  *)
(* modelled as it schedules: continuations of awaits on resolved promises  *)
(* are microtasks and run first in first out (micro); requests to the      *)
(* object store complete in the order they were made (dbq), each in a task *)
(* of its own, and a task starts only when no microtask is left.           *)
(***************************************************************************)
EXTENDS Integers, Sequences, FiniteSets, TLC

\* ------------------------------------------------------------ bounds
MaxTime == 3          \* the clock Date.now() runs over 0..MaxTime
MaxGen == 3           \* cap of a key's refresh generation
MaxProcs == 2         \* asynchronous calls in flight at once
TTL == 2              \* the ttl (ms) the modelled callers pass to set()
Retention == 1        \* the expiredRetention the engine is constructed with

\* ------------------------------------------------- program constants
DefaultTtl == 300000  \* 5 * 60 * 1000, the fallback of `entry.ttl || ...`
TrimFloor == 1000     \* touchKey trims the index past max(maxSize * 2, 1000)
MaxSizeLru == 2       \* the maxSize of the engine of SpecLru

\* ------------------------------------------------------------ values
Null == "null"        \* JavaScript null / undefined of a string-valued place
Undefined == "undefined"
Truthy(x) == x # Null /\ x # Undefined
Undef == -1           \* refreshGenerations.get(key) of a key never scheduled
Keys == {"a", "b"}
AllKeys == {"a", "b", "c"}
UserVals == {"v1", "v2"}
FetchVal == "fv"      \* what a refresher resolves with
MutVal == "mv"        \* what a mutator resolves with
FetcherFn == "fetchFn"
FetcherId == "fid"

\* Arguments that are no key: the empty string, and null, undefined and a number.
NotAString == "#42"
BadKeys == {"", Null, Undefined, NotAString}

NoEntry == [absent |-> TRUE]
NullEntry == [null |-> TRUE]   \* the entry of a deletion message
NullTtl == -1                  \* a ttl that is null
NoTimer == [none |-> TRUE]
DeadTimer == [dead |-> TRUE]   \* a handle whose timer has fired or was cleared

\* The fetcher argument of set(): none, a function, or {fn, id}.
NoFetcher == [kind |-> "none", fn |-> Null, id |-> Null]
PlainFetcher == [kind |-> "fn", fn |-> FetcherFn, id |-> Null]
IdFetcher == [kind |-> "obj", fn |-> FetcherFn, id |-> FetcherId]
\* {fn, id: undefined}: what mutate and refresh pass for an entry without fetcherId
BadFetcher == [kind |-> "obj", fn |-> FetcherFn, id |-> Undefined]

Slots == 1..MaxProcs
\* One asynchronous call: where it is suspended (pc) and its local variables.
\*   key, val, ttl, fet  the arguments of set(); key of every other call
\*   exp, pfid           set(): expiry and fetcherIdToPersist; get(): entry.expiry
\*   gen, fid            expectedGen; the fetcherId of the entry read at the start
\*   ext, swr            the options of get()
\*   items, rk           enforceMaxSizeIfNeeded / garbageCollectOnce: keys left, key in removal
\*   org                 who called: "user", "mutate", "refresh", "retry", "gc"
\*   live                get(): the entry object read is still the one in the jar
\*   mark                history of the call, for the properties (see "history")
Idle == [pc |-> "idle", key |-> Null, val |-> Null, ttl |-> 0, fet |-> NoFetcher,
         gen |-> 0, exp |-> 0, fid |-> Null, pfid |-> Null, ext |-> FALSE,
         swr |-> FALSE, items |-> <<>>, rk |-> Null, org |-> "none", live |-> FALSE,
         mark |-> {}, was |-> 0]

\* What the step just taken showed at the API: nothing, for most steps.
Quiet == [ev |-> "none", key |-> Null, val |-> Null]
Event(ev, key, val) == [ev |-> ev, key |-> key, val |-> val]

VARIABLES
  now,                \* Date.now()
  loaded,             \* dbReady has resolved (init() is done)
  maxSize,            \* constructor argument; 0 stands for null
  jar,                \* key -> entry
  accessTimestamps,   \* the Map key -> time, as a sequence in insertion order
  refreshers,         \* key -> function
  fetcherRegistry,    \* the ids registered
  refreshGenerations, \* key -> generation, Undef when the key has none
  refreshTimers,      \* key -> timer handle
  timerQueue,         \* the timeouts pending in the runtime
  gcTimer,            \* the sweep interval is running
  online,
  destroyed,
  db,                 \* the object store: key -> record
  idb,                \* the object store opens and answers ("ok"), does not open
                      \* ("noopen"), or opens and fails every request ("norequest")
  channel,            \* the last message posted to the BroadcastChannel
  procs,              \* the asynchronous calls in flight
  micro,              \* the microtask queue: slots whose continuation is ready
  dbq,                \* the slots waiting for the object store, in request order
  subscribers,        \* the Set of whole-cache callbacks
  keySubscribers,     \* key -> the Set object of its callbacks (NoSet: no entry)
  setForKey,          \* the Set objects subscribeKey created: object -> callbacks
  unsubscribers,      \* the functions subscribe and subscribeKey returned
  peer,               \* the jar of a peer engine
  told,               \* history: the callbacks called by the last step, in order
  completed,          \* history: the operations the last step completed
  recency,            \* history: the keys of the index, least recently touched first
  kept,               \* history: key -> the set() of the application that wrote it last
  biscuitV2,          \* the engine createBiscuitV2() returns, as one record
  obs                 \* history: what the last step showed at the API

vars == <<now, loaded, maxSize, jar, accessTimestamps, refreshers, fetcherRegistry,
          refreshGenerations, refreshTimers, timerQueue, gcTimer, online,
          destroyed, db, idb, channel, procs, micro, dbq, subscribers,
          keySubscribers, setForKey, unsubscribers, peer, told, completed,
          recency, kept, obs, biscuitV2>>

\* The engine state as one record, so that a handler's calls compose.
Cur == [jar |-> jar, accessTimestamps |-> accessTimestamps, refreshers |-> refreshers,
        fetcherRegistry |-> fetcherRegistry, refreshGenerations |-> refreshGenerations,
        refreshTimers |-> refreshTimers, timerQueue |-> timerQueue, gcTimer |-> gcTimer,
        online |-> online, destroyed |-> destroyed, db |-> db, channel |-> channel,
        procs |-> procs, micro |-> micro, dbq |-> dbq, subscribers |-> subscribers,
        keySubscribers |-> keySubscribers, setForKey |-> setForKey,
        unsubscribers |-> unsubscribers, peer |-> peer, told |-> <<>>,
        completed |-> {},
        recency |-> recency, kept |-> kept, obs |-> Quiet, ok |-> TRUE]

\* The step's result becomes the next state.  ok is FALSE when the step needed a
\* slot for a new asynchronous call and none was free; generations are capped.
Commit(E0) ==
  \E E \in {E0} :                         \* E0 is computed once
    /\ E.ok
    /\ \A k \in AllKeys : E.refreshGenerations[k] <= MaxGen
    /\ jar' = E.jar
    /\ accessTimestamps' = E.accessTimestamps
    /\ refreshers' = E.refreshers
    /\ fetcherRegistry' = E.fetcherRegistry
    /\ refreshGenerations' = E.refreshGenerations
    /\ refreshTimers' = E.refreshTimers
    /\ timerQueue' = E.timerQueue
    /\ gcTimer' = E.gcTimer
    /\ online' = E.online
    /\ destroyed' = E.destroyed
    /\ db' = E.db
    /\ channel' = E.channel
    /\ procs' = E.procs
    /\ micro' = E.micro
    /\ dbq' = E.dbq
    /\ subscribers' = E.subscribers
    /\ keySubscribers' = E.keySubscribers
    /\ setForKey' = E.setForKey
    /\ unsubscribers' = E.unsubscribers
    /\ peer' = E.peer
    /\ told' = E.told
    /\ completed' = E.completed
    /\ recency' = E.recency
    /\ kept' = E.kept
    /\ obs' = E.obs
    /\ UNCHANGED <<now, loaded, maxSize, idb, biscuitV2>>

\* ----------------------------------------------------------- helpers
Present(j, k) == k \in DOMAIN j /\ j[k] # NoEntry
jarKeys(j) == {k \in AllKeys : Present(j, k)}
jarSize(j) == Cardinality(jarKeys(j))

\* refreshGenerations.get(key) || 0
GenOr0(g, k) == IF g[k] = Undef THEN 0 ELSE g[k]

\* entry.ttl || 5 * 60 * 1000
TtlOrDefault(t) == IF t <= 0 THEN DefaultTtl ELSE t

\* (mutant) the ttl is left out of the expiry
MutNum(t) == 0

\* Date.now() + ttl: null counts as 0
Num(t) == IF t = NullTtl THEN 0 ELSE t

\* Math.floor(ttl * 0.1)
Margin(t) == t \div 10

\* (mutant) a call that waits for its fetcher stays at the head of the microtasks
MutMicroPcs == {"set_ready", "get_ready", "clr_wait", "mut_got", "mut_apply",
                "rf_apply", "rf_catch", "rt_apply", "rf_fetch"}

\* Where a call is suspended decides who resumes it: the microtask queue, the
\* object store, or a promise of the application (a fetcher, a mutator).
MicroPcs == {"set_ready", "get_ready", "clr_wait", "mut_got", "mut_apply",
             "rf_apply", "rf_catch", "rt_apply"}
StorePcs == {"set_persist", "set_evict", "get_rm", "get_persist", "rm_db", "clr_db",
             "gc_rm"}
Without(q, i) == SelectSeq(q, LAMBDA x : x # i)

\* The call of slot i goes on to p: it leaves the queue it was in and joins the
\* queue of its next suspension.
SetProc(E, i, p) ==
  [E EXCEPT !.procs[i] = p,
            !.micro = IF p.pc \in MicroPcs THEN Append(Without(@, i), i)
                      ELSE Without(@, i),
            !.dbq = IF p.pc \in StorePcs THEN Append(Without(@, i), i)
                    ELSE Without(@, i)]
FreeSlots(E) == {i \in Slots : E.procs[i].pc = "idle"}

\* A new asynchronous call takes the lowest free slot.
Spawn(E, p) ==
  IF FreeSlots(E) = {} THEN [E EXCEPT !.ok = FALSE]
  ELSE LET i == CHOOSE x \in FreeSlots(E) : \A y \in FreeSlots(E) : x <= y
       IN  SetProc(E, i, p)

\* ------------------------------------------------------- argument checks
\* (mutant) every argument passes for a key
MutValidKey(key) == TRUE

\* typeof key !== "string" || !key  (lines 405, 440, 477, 510)
validKey(key) == key \notin {Null, Undefined, NotAString} /\ key # ""

\* throw new Error("...expects..."): the call ends at once, rejected
invalid(E, key, op) == [E EXCEPT !.obs = Event("invalid", key, op)]

\* ------------------------------------------------------------ history
\* The marks of a call record what happened around it; no handler reads them.
\*   of a refresh or a mutate:
\*     "written"     set(key) was called after its fetcher / mutator was invoked
\*     "overwritten" and that set() has since written its value into the jar
\*     "completed"   and that set() has since returned
\*     "removed"     remove(key) was called after its fetcher was invoked
\*     "overlap"     another mutate has overwritten the value this mutate read
\*   of a set() of the application:
\*     "late"        it was called while such a refresh or mutate was in flight
Fetching(p, key) ==
  /\ p.key = key /\ p.org \in {"refresh", "retry"}
  /\ p.pc \in {"rf_fetch", "rf_apply", "rf_catch", "rf_retry", "rt_apply", "set_ready"}
Mutating(p, key) == p.key = key /\ p.org = "mutate" /\ p.pc = "mut_eval"

\* Every call that satisfies Which gets the mark.
Tag(E, Which(_), mark) ==
  [E EXCEPT !.procs = [i \in Slots |->
     IF Which(E.procs[i]) THEN [E.procs[i] EXCEPT !.mark = @ \cup {mark}]
     ELSE E.procs[i]]]

\*   of the refresh a stale-while-revalidate get() started:
\*     "swr"         it was started by such a get()
\*     "busy"        another call on the key was still running when it started
\*     "read"        get(key) was called since
\*     "offline", "destroyed"   the engine went offline, was destroyed since
\*     "raced"       a timeout has started another refresh of the key since
\*     "swept"       the sweep has removed the key since
Revalidating(p) == p.org = "refresh" /\ "swr" \in p.mark
Disturb(E, key, mark) ==
  LET Which(q) == Revalidating(q) /\ Fetching(q, key) IN Tag(E, Which, mark)
DisturbAll(E, mark) == Tag(E, Revalidating, mark)

\* The slot of the call that E1 has and E0 has not, 0 without one.
NewSlot(E0, E1) ==
  IF E1.procs = E0.procs THEN 0
  ELSE CHOOSE i \in Slots : E1.procs[i] # E0.procs[i]

\* The call that E1 has and E0 has not gets the marks.
MarkNew(E0, E1, marks) ==
  [E1 EXCEPT !.procs = [i \in Slots |->
     IF E1.procs[i] # E0.procs[i] THEN [E1.procs[i] EXCEPT !.mark = marks]
     ELSE E1.procs[i]]]

\* kept[key]: the value and ttl of the last set() the application wrote key with,
\* whether that set() has returned, and the time its ttl runs to (from the write,
\* or from the last get() that extended the entry).  Another write of the key, a
\* removal by remove(), clear() or a peer, and an eviction forget it.
NoKeep == [none |-> TRUE]
Keep(i, value, ttl) == [val |-> value, ttl |-> ttl, until |-> now + ttl, by |-> i,
                        done |-> FALSE]
Forget(E, key) == IF key \in AllKeys THEN [E EXCEPT !.kept[key] = NoKeep] ELSE E
Extended(E, key) ==
  IF E.kept[key] = NoKeep THEN E
  ELSE [E EXCEPT !.kept[key].until = now + E.kept[key].ttl]

\* A timeout records whether remove(key) was called while it was pending.
Outlived(t) == [t EXCEPT !.removed = TRUE]
TagTimers(E, key) ==
  [E EXCEPT !.timerQueue = {IF t.key = key THEN Outlived(t) ELSE t : t \in @},
            !.refreshTimers = [k \in AllKeys |->
               IF k = key /\ @[k] \in E.timerQueue THEN Outlived(@[k]) ELSE @[k]]]

\* ------------------------------------------------------- LRU helpers
IndexOfKey(s, k) == IF \E n \in 1..Len(s) : s[n].k = k
                    THEN CHOOSE n \in 1..Len(s) : s[n].k = k ELSE 0

\* Map.set: an existing key keeps its place, a new key goes last.
MapSet(s, k, t) ==
  LET n == IndexOfKey(s, k)
  IN  IF n = 0 THEN Append(s, [k |-> k, t |-> t])
      ELSE [s EXCEPT ![n] = [k |-> k, t |-> t]]

\* Map.get on the index: undefined for a key it does not hold.
StampOf(s, k) == IF IndexOfKey(s, k) = 0 THEN Undef ELSE s[IndexOfKey(s, k)].t

MapDelete(s, k) == SelectSeq(s, LAMBDA e : e.k # k)

\* Array.prototype.sort is stable: equal times keep their order.
RECURSIVE InsertAsc(_, _)
InsertAsc(sorted, e) ==
  IF sorted = <<>> THEN <<e>>
  ELSE IF Head(sorted).t <= e.t THEN <<Head(sorted)>> \o InsertAsc(Tail(sorted), e)
       ELSE <<e>> \o sorted

RECURSIVE SortAsc(_)
SortAsc(s) == IF s = <<>> THEN <<>>
              ELSE InsertAsc(SortAsc(SubSeq(s, 1, Len(s) - 1)), s[Len(s)])

RECURSIVE InsertDesc(_, _)
InsertDesc(sorted, e) ==
  IF sorted = <<>> THEN <<e>>
  ELSE IF Head(sorted).t >= e.t THEN <<Head(sorted)>> \o InsertDesc(Tail(sorted), e)
       ELSE <<e>> \o sorted

RECURSIVE SortDesc(_)
SortDesc(s) == IF s = <<>> THEN <<>>
               ELSE InsertDesc(SortDesc(SubSeq(s, 1, Len(s) - 1)), s[Len(s)])

Max2(x, y) == IF x >= y THEN x ELSE y

\* history: key is the most recently touched; key is touched no more
Touched(r, key) == SelectSeq(r, LAMBDA k : k # key) \o <<key>>
Untouched(r, key) == SelectSeq(r, LAMBDA k : k # key)

\* what touchKey does to the index, lines 352-358: the key is stamped, and an
\* index grown past max(maxSize * 2, 1000) is cut to its maxSize * 2 newest keys
\* entries.sort((a, b) => b[1] - a[1]).slice(0, m), lines 354-355: the m entries
\* with the latest times, latest first, equal times in the order of the Map.
\* (The first m of SortDesc, found by m selections.)
RECURSIVE Newest(_, _)
Newest(s, m) ==
  IF m = 0 \/ s = <<>> THEN <<>>
  ELSE LET times == {s[n].t : n \in 1..Len(s)}
           latest == CHOOSE t \in times : \A u \in times : u <= t
           first == CHOOSE n \in 1..Len(s) :
                      s[n].t = latest /\ \A j \in 1..(n - 1) : s[j].t # latest
       IN  <<s[first]>> \o Newest(SubSeq(s, 1, first - 1) \o SubSeq(s, first + 1, Len(s)),
                                   m - 1)

touchIndex(index, key, t, size) ==
  LET s == MapSet(index, key, t)
  IN  IF size # 0 /\ Len(s) > Max2(size * 2, TrimFloor)
      THEN Newest(s, size * 2)
      ELSE s

\* touchKey, lines 350-359
touchKey(E, key) ==
  [E EXCEPT !.recency = Touched(@, key),
            !.accessTimestamps = touchIndex(@, key, now, maxSize)]

\* ------------------------------------------------- timers of the GC sweep
startGcTimer(E) == [E EXCEPT !.gcTimer = TRUE]
stopGcTimer(E) == [E EXCEPT !.gcTimer = FALSE]

\* ------------------------------------------------------ persistent store
\* IndexedDB runs the transactions of one store in the order they were created,
\* which is the order of the engine's calls: the store changes at the call, the
\* caller resumes in a later step.
Record(value, expiry, ttl, fetcherId) ==
  [value |-> value, expiry |-> expiry, ttl |-> ttl, fetcherId |-> fetcherId]

\* openIDB (lines 92-103) has rejected, and init() and dbReady with it (lines
\* 256, 308): every `await dbReady` throws.
Rejected == loaded /\ idb = "noopen"

\* persist, lines 313-326: the record holds fetcherId || null.  A request that
\* fails is caught and logged (lines 324, 327, 328).
persist(E, key, value, expiry, ttl, fetcherId) ==
  IF idb # "ok" THEN E
  ELSE [E EXCEPT !.db[key] = Record(value, expiry, ttl,
                                    IF Truthy(fetcherId) THEN fetcherId ELSE Null)]
removeFromDB(E, key) == IF idb # "ok" THEN E ELSE [E EXCEPT !.db[key] = NoEntry]
clearDB(E) == IF idb # "ok" THEN E ELSE [E EXCEPT !.db = [k \in AllKeys |-> NoEntry]]

\* ------------------------------------------------------------- notify
\* The callbacks of the application, and the Set objects subscribeKey creates.
MaxUnsubscribers == 2
Fns == {"f", "g"}
FnOrder == <<"f", "g">>
KeyOrder == <<"a", "b", "c">>
SetObjects == 1..MaxUnsubscribers
NoSet == 0

\* getAll(), lines 331-336: the object key -> value; a key not in the jar is no
\* property of it
getAll(E) == [k \in AllKeys |-> IF Present(E.jar, k) THEN E.jar[k].value ELSE Undefined]

\* jar.get(key)?.value ?? null
valueOrNull(E, key) == IF Present(E.jar, key) THEN E.jar[key].value ELSE Null

\* fn(arg) was called; key is Null for a whole-cache callback
Call(fn, key, arg) == [fn |-> fn, key |-> key, arg |-> arg]
CallsOf(S, key, arg) ==
  LET fs == SelectSeq(FnOrder, LAMBDA f : f \in S)
  IN  [n \in 1..Len(fs) |-> Call(fs[n], key, arg)]

RECURSIVE keyCalls(_, _)
keyCalls(E, n) ==
  IF n > Len(KeyOrder) THEN <<>>
  ELSE LET key == KeyOrder[n]
       IN  (IF E.keySubscribers[key] = NoSet THEN <<>>
            ELSE CallsOf(E.setForKey[E.keySubscribers[key]], key, valueOrNull(E, key)))
           \o keyCalls(E, n + 1)

\* (mutant) nobody is told
MutNotify(E) == E

\* notify(), lines 337-347
notify(E) ==
  [E EXCEPT !.told = @ \o CallsOf(E.subscribers, Null, getAll(E)) \o keyCalls(E, 1)]

\* history: the step completed an operation of the kind op
Completes(E, op) == [E EXCEPT !.completed = @ \cup {op}]

\* ---------------------------------------------------------- cross-tab sync
\* channel.postMessage({ key, entry })
Message(key, entry) == [key |-> key, entry |-> entry]

\* A refresh() waiting for its fetcher: it holds expectedGen and the entry it read.
RefreshProc(pc, key, expectedGen, ttl, fetcherId) ==
  [Idle EXCEPT !.pc = pc, !.key = key, !.gen = expectedGen, !.ttl = ttl,
               !.fid = fetcherId, !.org = "refresh"]

\* (mutant) refresh() returns at once
MutRefreshStart(E, key, expectedGen) == E

\* ----------------------------------------------- refresh, up to its first await
\* refresh(key, expectedGen), lines 590-601: the guards, then fetcher() is called
\* and the call waits for it in a slot.
refreshStart(E, key, expectedGen) ==
  IF E.destroyed THEN E                                   \* ensureNotDestroyed throws
  ELSE IF ~Present(E.jar, key) \/ E.refreshers[key] = Null \/ ~E.online THEN E
  ELSE IF expectedGen # E.refreshGenerations[key] THEN E  \* superseded
  ELSE Spawn(E, RefreshProc("rf_fetch", key, expectedGen, E.jar[key].ttl,
                             E.jar[key].fetcherId))

\* (mutant) clearTimeout leaves the timeout pending
MutClearTimeout(E, handle) == E

clearTimeout(E, handle) == [E EXCEPT !.timerQueue = @ \ {handle}]

\* scheduleRefresh(key, expiry), lines 567-588.  isOnline() throws on a destroyed
\* engine, before anything is changed.
scheduleRefresh(E, key, expiry) ==
  IF ~Present(E.jar, key) \/ E.destroyed \/ ~E.online THEN E
  ELSE
    LET gen == GenOr0(E.refreshGenerations, key) + 1
        E1 == [E EXCEPT !.refreshGenerations[key] = gen]
        had == E1.refreshTimers[key] # NoTimer
        E2 == IF had THEN clearTimeout(E1, E1.refreshTimers[key]) ELSE E1
        refreshTime == expiry - now - Margin(TtlOrDefault(E.jar[key].ttl))
        timer == [key |-> key, gen |-> gen, due |-> now + refreshTime,
                  removed |-> FALSE]
    IN  IF refreshTime <= 0
        THEN refreshStart([E2 EXCEPT !.refreshTimers[key] = IF had THEN DeadTimer ELSE NoTimer],
                          key, gen)
        ELSE [E2 EXCEPT !.timerQueue = @ \cup {timer}, !.refreshTimers[key] = timer]

\* The entry object of key leaves the jar (replaced or deleted): a get() that holds
\* it keeps the expiry it had.
DropRefs(E, key) ==
  [E EXCEPT !.procs = [i \in Slots |->
     IF E.procs[i].live /\ E.procs[i].key = key
     THEN [E.procs[i] EXCEPT !.live = FALSE, !.exp = E.jar[key].expiry]
     ELSE E.procs[i]]]

\* ------------------------------------------------------ inbound messages
\* handleRemoteUpdate(key, entry), lines 215-248
handleRemoteUpdate(E, key, entry) ==
  IF key \notin AllKeys THEN E                            \* jar.get(null)
  ELSE IF entry = NullEntry
  THEN IF Present(E.jar, key)
       THEN LET E0 == Forget(DropRefs(E, key), key)
            IN  Completes(notify([E0 EXCEPT !.jar[key] = NoEntry,
                                            !.accessTimestamps = MapDelete(@, key),
                                            !.recency = Untouched(@, key),
                                            !.refreshers[key] = Null]), "inbound")
       ELSE E
  ELSE
    LET cur == E.jar[key]
        expiry == IF entry.expiry = 0 THEN now + DefaultTtl ELSE entry.expiry
        ttl == IF entry.ttl <= 0 THEN NullTtl ELSE entry.ttl
        fetcherId == IF Truthy(entry.fetcherId) THEN entry.fetcherId ELSE Null
    IN  IF ~Present(E.jar, key) \/ cur.value # entry.value \/ cur.expiry # expiry
           \/ cur.ttl # ttl \/ cur.fetcherId # fetcherId
        THEN LET E0 == Forget(DropRefs(E, key), key)
                 E1 == touchKey([E0 EXCEPT !.jar[key] =
                          [value |-> entry.value, expiry |-> expiry, ttl |-> ttl,
                           fetcherId |-> fetcherId]], key)
                 E2 == IF Truthy(fetcherId) /\ fetcherId \in E1.fetcherRegistry
                       THEN scheduleRefresh([E1 EXCEPT !.refreshers[key] = FetcherFn],
                                            key, expiry)
                       ELSE [E1 EXCEPT !.refreshers[key] = Null]
             IN  Completes(notify(E2), "inbound")
        ELSE E

\* channel.onmessage, line 250: the handler reads e.data.key and e.data.value
MessageField(m, f) == IF f \in DOMAIN m THEN m[f] ELSE NullEntry

\* A peer: an engine of the same namespace in another tab, which does nothing but
\* handle the messages this engine posts.  peer is its jar.
PeerEngine(E) == [E EXCEPT !.jar = E.peer, !.procs = [i \in Slots |-> Idle]]
delivered(E, m) == handleRemoteUpdate(PeerEngine(E), m.key, MessageField(m, "value")).jar

\* broadcastChange(key, entry), lines 205-213; the peer's onmessage runs
broadcastChange(E, key, entry) ==
  [E EXCEPT !.channel = Message(key, entry),
            !.peer = delivered(E, Message(key, entry))]

\* (mutant) remove() deletes the record and leaves the entry in the jar
MutRemoveSync(E, key) == removeFromDB(E, key)

\* --------------------------------------------------------------- remove
\* remove(key) up to its await (lines 507-520); the key check is the caller's.
\* thrown: ensureNotDestroyed threw.  gone: the key was not in the jar.
removeSync(E, key) ==
  LET E0 == DropRefs(E, key)
      E1 == [E0 EXCEPT !.jar[key] = NoEntry,
                      !.refreshers[key] = Null,
                      !.accessTimestamps = MapDelete(@, key),
                      !.recency = Untouched(@, key),
                      !.refreshGenerations[key] = GenOr0(E.refreshGenerations, key) + 1]
      E2 == IF E1.refreshTimers[key] # NoTimer
            THEN [clearTimeout(E1, E1.refreshTimers[key]) EXCEPT !.refreshTimers[key] = NoTimer]
            ELSE E1
  IN  removeFromDB(E2, key)

\* remove(key) after removeFromDB (lines 521-523).  postMessage throws on the
\* channel destroy() closed.
removeTail(E, key) ==
  IF E.destroyed THEN E
  ELSE LET E1 == Completes(notify(broadcastChange(E, key, NullEntry)), "remove")
       IN  IF jarSize(E1.jar) = 0 THEN stopGcTimer(E1) ELSE E1

\* ---------------------------------------------------- the end of a set()
\* set() returns: notify(), line 433.  (The quota check follows; it changes
\* nothing of the state modelled here.)
setDone(E0, i) ==
  LET E == Completes(notify(E0), "set")
      p == E.procs[i]
      Fenced(q) == q.key = p.key /\ q.org = "mutate" /\ "written" \in q.mark
                   /\ q.pc = "mut_eval"
      E1 == IF "late" \in p.mark THEN Tag(E, Fenced, "completed") ELSE E
      E2 == IF p.org = "user" /\ E1.kept[p.key] # NoKeep /\ E1.kept[p.key].by = i
            THEN [E1 EXCEPT !.kept[p.key].done = TRUE] ELSE E1
  IN  SetProc(E2, i, Idle)

\* set() threw.  Called by mutate, by the retry of refresh or by the user, the
\* call ends rejected.  Called in the try block of refresh (lines 600-618), the
\* catch block retries: fetcher() is called again if the generation still is the
\* expected one (lines 619-625).
setThrew(E, i) ==
  LET p == E.procs[i]
  IN  IF p.org = "refresh" /\ p.gen = E.refreshGenerations[p.key]
      THEN SetProc(E, i, RefreshProc("rf_retry", p.key, p.gen, p.ttl, p.fid))
      ELSE SetProc(E, i, Idle)

\* `await dbReady` threw in the call of slot i: the call ends rejected.
awaitThrew(E, i) ==
  [setThrew(E, i) EXCEPT !.obs = Event("threw", E.procs[i].key, E.procs[i].org)]

\* enforceMaxSizeIfNeeded, the loop of lines 365-368, entered with the keys left:
\* remove(evictKey) runs up to its await, or the loop ends and set() with it.
RECURSIVE evictLoop(_, _, _)
evictLoop(E, i, items) ==
  IF jarSize(E.jar) > maxSize /\ items # <<>>
  THEN LET evictKey == Head(items)
       IN  IF E.destroyed THEN setThrew(E, i)             \* ensureNotDestroyed of remove
           ELSE IF ~Present(E.jar, evictKey) THEN evictLoop(E, i, Tail(items))
           ELSE SetProc([removeSync(Forget(E, evictKey), evictKey) EXCEPT
                           !.obs = Event("evict", evictKey,
                                         [lru |-> Head(E.recency),
                                          tied |-> StampOf(E.accessTimestamps, evictKey)
                                                   = StampOf(E.accessTimestamps, Head(E.recency)),
                                          written |-> E.procs[i].key])], i,
                        [E.procs[i] EXCEPT !.pc = "set_evict", !.rk = evictKey,
                                           !.items = Tail(items)])
  ELSE setDone(E, i)

KeysOf(s) == [n \in 1..Len(s) |-> s[n].k]

\* enforceMaxSizeIfNeeded, lines 360-369
enforceMaxSizeIfNeeded(E, i) ==
  IF maxSize = 0 \/ jarSize(E.jar) <= maxSize THEN setDone(E, i)
  ELSE evictLoop(E, i, KeysOf(SortAsc(E.accessTimestamps)))

\* ------------------------------------------------------------------ set
\* set(key, value, ttl, fetcher), lines 402-406: the guards, then await dbReady.
setCall(E, key, value, ttl, fetcher, org, gen, fid, mark) ==
  Spawn(E, [Idle EXCEPT !.pc = "set_ready", !.key = key, !.val = value, !.ttl = ttl,
                        !.fet = fetcher, !.org = org, !.gen = gen, !.fid = fid,
                        !.mark = mark])

\* lines 407-429: from dbReady to the await of persist
setCommit(E, i) ==
  LET p == E.procs[i]
      expiry == now + Num(p.ttl)
      E0 == DropRefs(E, p.key)
      E1 == touchKey([E0 EXCEPT !.jar[p.key] =
                        [value |-> p.val, expiry |-> expiry, ttl |-> p.ttl,
                         fetcherId |-> Undefined]], p.key)      \* line 408: no fetcherId
      E2 == IF jarSize(E1.jar) = 1 THEN startGcTimer(E1) ELSE E1
      idOk == p.fet.kind = "obj" /\ p.fet.fn # Null /\ Truthy(p.fet.id)
      fetcherIdToPersist == IF idOk THEN p.fet.id ELSE Null
      E3 == IF p.fet.kind = "none" THEN [E2 EXCEPT !.refreshers[p.key] = Null]
            ELSE IF p.fet.kind = "fn" THEN [E2 EXCEPT !.refreshers[p.key] = p.fet.fn]
            ELSE IF idOk THEN [E2 EXCEPT !.refreshers[p.key] = p.fet.fn,
                                         !.fetcherRegistry = @ \cup {p.fet.id}]
            ELSE E2                                       \* "Invalid fetcher"
      Stale(q) == q.key = p.key /\ q.org \in {"refresh", "retry"} /\ "written" \in q.mark
      HasRead(q) == q.key = p.key /\ q.org = "mutate"
                    /\ q.pc \in {"mut_got", "mut_eval", "mut_apply"}
      H1 == IF "late" \in p.mark THEN Tag(E3, Stale, "overwritten") ELSE E3
      H2 == IF p.org = "mutate" THEN Tag(H1, HasRead, "overlap") ELSE H1
      H3 == [H2 EXCEPT !.kept[p.key] = IF p.org = "user" THEN Keep(i, p.val, p.ttl)
                                       ELSE NoKeep]
      H4 == IF p.org = "refresh"
            THEN [H3 EXCEPT !.obs = Event("refreshed", p.key,
                                          [mark |-> p.mark, ttl |-> p.ttl])]
            ELSE H3
      E4 == persist(H4, p.key, p.val, expiry, p.ttl, fetcherIdToPersist)
  IN  SetProc(E4, i, [p EXCEPT !.pc = "set_persist", !.exp = expiry,
                               !.pfid = fetcherIdToPersist, !.fet = NoFetcher])

\* lines 430-434: after persist
setPersisted(E, i) ==
  LET p == E.procs[i]
  IN  IF E.destroyed THEN setThrew(E, i)                  \* postMessage on a closed channel
      ELSE LET E1 == broadcastChange(E, p.key, Record(p.val, p.exp, p.ttl, p.pfid))
               E2 == scheduleRefresh(E1, p.key, p.exp)
           IN  enforceMaxSizeIfNeeded(E2, i)

\* the remove() of an eviction resumes (lines 521-523), then the loop goes on
setEvicted(E, i) ==
  LET p == E.procs[i]
  IN  IF E.destroyed THEN setThrew(E, i)
      ELSE evictLoop(removeTail(E, p.rk), i, p.items)

At(i, pc) == procs[i].pc = pc

\* A continuation that waits for dbReady runs once init() is done.
DbReadyPcs == {"set_ready", "get_ready", "clr_wait"}
Runnable(i) == loaded \/ procs[i].pc \notin DbReadyPcs

\* The microtask queue runs first in first out.
MicroTurn(i) ==
  \E n \in 1..Len(micro) : /\ micro[n] = i /\ Runnable(i)
                            /\ \A m \in 1..(n - 1) : ~Runnable(micro[m])

\* The completion of a store request, a timeout, a message and a network event
\* are tasks: the event loop starts one only when no microtask is left.
TaskTurn == \A n \in 1..Len(micro) : ~Runnable(micro[n])

\* The store completes its requests in the order they were made.
StoreTurn(i) == TaskTurn /\ dbq # <<>> /\ Head(dbq) = i

\* set(key, value, ttl, fetcher) up to its first await, lines 402-406
setEntered(E, key, value, ttl, fetcher) ==
  LET InFlight(q) == Fetching(q, key) \/ Mutating(q, key)
      late == IF \E i \in Slots : InFlight(E.procs[i]) THEN {"late"} ELSE {}
  IN  IF ~validKey(key) THEN invalid(E, key, "set")
      ELSE setCall(Tag(E, InFlight, "written"), key, value, ttl, fetcher,
                   "user", 0, Null, late)

set_call(key, value, ttl, fetcher) ==
  /\ ~destroyed
  /\ Commit(setEntered(Cur, key, value, ttl, fetcher))

\* history: the call that entered in this step keeps the generation its key had
\* when it was called
Noted(E, key) ==
  [E EXCEPT !.procs = [i \in Slots |->
     IF procs[i].pc = "idle" /\ E.procs[i].pc # "idle"
     THEN [E.procs[i] EXCEPT !.was = GenOr0(refreshGenerations, key)]
     ELSE E.procs[i]]]

\* set() called by an application that remembers the generation of the key
set_noted(key, value, ttl, fetcher) ==
  /\ ~destroyed
  /\ Commit(Noted(setEntered(Cur, key, value, ttl, fetcher), key))

set_ready(i) ==
  /\ At(i, "set_ready") /\ MicroTurn(i)
  /\ Commit(IF Rejected THEN awaitThrew(Cur, i) ELSE setCommit(Cur, i))

set_persisted(i) ==
  /\ At(i, "set_persist") /\ StoreTurn(i)
  /\ Commit(setPersisted(Cur, i))

set_evicted(i) ==
  /\ At(i, "set_evict") /\ StoreTurn(i)
  /\ Commit(setEvicted(Cur, i))

\* ------------------------------------------------------------------ get
\* get(key, { extend, staleWhileRevalidate }), lines 437-441
getCall(E, key, extend, staleWhileRevalidate, org, ttl, fid) ==
  Spawn(E, [Idle EXCEPT !.pc = "get_ready", !.key = key, !.ext = extend,
                        !.swr = staleWhileRevalidate, !.org = org, !.ttl = ttl,
                        !.fid = fid])

\* Date.now() > entry.expiry
Expired(entry) == now > entry.expiry

\* get() returned value: for the user the call is over, mutate goes on with it.
getReturn(E, i, value) ==
  IF E.procs[i].org = "mutate"
  THEN IF value # Null
       THEN SetProc(E, i, [E.procs[i] EXCEPT !.pc = "mut_got", !.val = value])
       ELSE SetProc(E, i, Idle)
  ELSE SetProc([E EXCEPT !.obs = Event("get", E.procs[i].key, value)], i, Idle)

\* lines 442-470: from dbReady to the next await, or to the return
getRun(E, i) ==
  LET p == E.procs[i]
      key == p.key
      entry == E.jar[key]
  IN  IF ~Present(E.jar, key) THEN getReturn(E, i, Null)
      ELSE
        LET E1 == touchKey(E, key)
        IN  IF Expired(entry)
            THEN IF p.swr /\ E1.refreshers[key] # Null
                 THEN LET E2 == getReturn(E1, i, entry.value)
                          E3 == refreshStart(E2, key, E1.refreshGenerations[key])
                          busy == \E j \in Slots : /\ E2.procs[j].pc # "idle"
                                                   /\ E2.procs[j].key = key
                      IN  [MarkNew(E2, E3, IF busy THEN {"swr", "busy"} ELSE {"swr"})
                             EXCEPT !.obs = Event("stale", key,
                                                  [value |-> entry.value,
                                                   slot |-> NewSlot(E2, E3)])]
                 ELSE LET E2 == DropRefs(E1, key)
                          E3 == [E2 EXCEPT !.jar[key] = NoEntry,
                                           !.accessTimestamps = MapDelete(@, key),
                                           !.recency = Untouched(@, key)]
                      IN  SetProc(removeFromDB(E3, key), i,
                                  [E3.procs[i] EXCEPT !.pc = "get_rm", !.ext = FALSE,
                                                      !.swr = FALSE])
            ELSE IF p.ext
                 THEN LET expiry == now + TtlOrDefault(entry.ttl)
                          E2 == Extended([E1 EXCEPT !.jar[key].expiry = expiry], key)
                          E3 == persist(E2, key, entry.value, expiry, entry.ttl,
                                        entry.fetcherId)
                      IN  SetProc(E3, i, [p EXCEPT !.pc = "get_persist", !.live = TRUE,
                                                   !.val = entry.value, !.exp = expiry,
                                                   !.ext = FALSE, !.swr = FALSE])
                 ELSE getReturn(E1, i, entry.value)

\* (mutant) the removal is told to nobody
MutGetRemoved(E, i) == getReturn(E, i, Null)

\* lines 458-460: after removeFromDB
getRemoved(E, i) ==
  IF E.destroyed THEN SetProc(E, i, Idle)                 \* postMessage throws
  ELSE getReturn(Completes(notify(broadcastChange(E, E.procs[i].key, NullEntry)),
                           "expiry"), i, Null)

\* lines 467-470: after persist.  entry is the object read before the await.
getPersisted(E, i) ==
  LET p == E.procs[i]
      expiry == IF p.live THEN E.jar[p.key].expiry ELSE p.exp
  IN  getReturn(scheduleRefresh(E, p.key, expiry), i, p.val)

get_call(key, extend, staleWhileRevalidate) ==
  /\ ~destroyed
  /\ IF ~validKey(key) THEN Commit(invalid(Cur, key, "get"))
     ELSE Commit(getCall(Disturb(Cur, key, "read"), key, extend, staleWhileRevalidate,
                         "user", 0, Null))

get_ready(i) ==
  /\ At(i, "get_ready") /\ MicroTurn(i)
  /\ Commit(IF Rejected THEN awaitThrew(Cur, i) ELSE getRun(Cur, i))

get_removed(i) ==
  /\ At(i, "get_rm") /\ StoreTurn(i)
  /\ Commit(getRemoved(Cur, i))

get_persisted(i) ==
  /\ At(i, "get_persist") /\ StoreTurn(i)
  /\ Commit(getPersisted(Cur, i))

\* --------------------------------------------------------------- mutate
\* mutate(key, mutator), lines 473-482: the guards, the entry read, then get().
\* Without an entry the call returns and nothing has changed.
mutate_call(key) ==
  /\ ~destroyed
  /\ IF ~validKey(key) THEN Commit(invalid(Cur, key, "mutate"))
     ELSE /\ Present(jar, key)
          /\ Commit(getCall(Cur, key, FALSE, FALSE, "mutate", jar[key].ttl,
                            jar[key].fetcherId))

\* mutate(key, mutator) with a mutator that is no function: line 476 throws
\* whatever the key is.
mutate_no_function(key) ==
  /\ ~destroyed
  /\ Commit(invalid(Cur, key, "mutate"))

\* lines 483-488: get() has returned; the generation is captured and the mutator called
mutateGot(E, i) ==
  SetProc(E, i, [E.procs[i] EXCEPT !.pc = "mut_eval",
                                   !.gen = GenOr0(E.refreshGenerations, E.procs[i].key)])

\* what mutate hands to set() as the fetcher (line 503)
MutateFetcher(E, p) ==
  IF E.refreshers[p.key] = Null THEN NoFetcher
  ELSE IF Truthy(p.fid) THEN IdFetcher ELSE BadFetcher

\* lines 490-504: the mutator has resolved
mutateApply(E, i) ==
  LET p == E.procs[i]
      key == p.key
  IN  IF GenOr0(E.refreshGenerations, key) # p.gen THEN SetProc(E, i, Idle)
      ELSE LET E1 == [E EXCEPT !.refreshGenerations[key] = p.gen + 1]
               E2 == SetProc(E1, i, Idle)
           IN  IF E.destroyed THEN E2                     \* ensureNotDestroyed of set
               ELSE setCall(E2, key, MutVal, p.ttl, MutateFetcher(E, p), "mutate",
                            0, Null, p.mark)

mutate_got(i) ==
  /\ At(i, "mut_got") /\ MicroTurn(i)
  /\ Commit(mutateGot(Cur, i))

\* the mutator's promise resolves: the rest of mutate is queued
mutate_resolved(i) ==
  /\ At(i, "mut_eval")
  /\ Commit(SetProc(Cur, i, [procs[i] EXCEPT !.pc = "mut_apply"]))

mutate_applied(i) ==
  /\ At(i, "mut_apply") /\ MicroTurn(i)
  /\ Commit(mutateApply(Cur, i))

\* the mutator throws or rejects: mutate rejects with it
mutate_rejected(i) ==
  /\ At(i, "mut_eval")
  /\ Commit(SetProc(Cur, i, Idle))

\* ------------------------------------------------------- remove, clear
\* remove(key), lines 507-520.  Without an entry it returns at line 511.
remove_call(key) ==
  /\ ~destroyed
  /\ LET Awaited(q) == q.key = key /\ q.org \in {"refresh", "retry"}
                       /\ q.pc \in {"rf_fetch", "rf_retry"}
         E == Forget(Tag(TagTimers(Cur, key), Awaited, "removed"), key)
     IN  IF ~validKey(key) THEN Commit(invalid(Cur, key, "remove"))
         ELSE IF Present(jar, key)
         THEN Commit(Spawn(removeSync(E, key), [Idle EXCEPT !.pc = "rm_db", !.key = key,
                                                            !.org = "user"]))
         ELSE Commit(E)

remove_done(i) ==
  /\ At(i, "rm_db") /\ StoreTurn(i)
  /\ Commit(IF Rejected THEN awaitThrew(Cur, i)
            ELSE SetProc(removeTail(Cur, procs[i].key), i, Idle))

RECURSIVE DropAllRefs(_, _)
DropAllRefs(E, ks) ==
  IF ks = {} THEN E
  ELSE LET k == CHOOSE x \in ks : TRUE
       IN  DropAllRefs(DropRefs(E, k), ks \ {k})

\* (mutant) clear() forgets the generations
MutClearSync(E) ==
  LET E0 == DropAllRefs(E, jarKeys(E.jar))
  IN  [E0 EXCEPT !.jar = [k \in AllKeys |-> NoEntry],
                 !.kept = [k \in AllKeys |-> NoKeep],
                 !.refreshers = [k \in AllKeys |-> Null],
                 !.accessTimestamps = <<>>,
                 !.recency = <<>>,
                 !.refreshGenerations = [k \in AllKeys |-> Undef],
                 !.timerQueue = {},
                 !.refreshTimers = [k \in AllKeys |-> NoTimer]]

\* clear(), lines 526-536
clearSync(E) ==
  LET E0 == DropAllRefs(E, jarKeys(E.jar))
  IN  [E0 EXCEPT !.jar = [k \in AllKeys |-> NoEntry],
                 !.kept = [k \in AllKeys |-> NoKeep],
                 !.refreshers = [k \in AllKeys |-> Null],
                 !.accessTimestamps = <<>>,
                 !.recency = <<>>,
                 !.refreshGenerations = [k \in AllKeys |->
                     IF E.refreshGenerations[k] = Undef THEN Undef
                     ELSE E.refreshGenerations[k] + 1],
                 !.timerQueue = {},
                 !.refreshTimers = [k \in AllKeys |-> NoTimer]]

\* clearDB waits for dbReady before it clears the store.
clear_call ==
  /\ ~destroyed
  /\ LET opened == loaded /\ ~Rejected
     IN  Commit(Spawn(IF opened THEN clearDB(clearSync(Cur)) ELSE clearSync(Cur),
                      [Idle EXCEPT !.pc = IF opened THEN "clr_db" ELSE "clr_wait",
                                   !.org = "user",
                                   !.items = SelectSeq(KeyOrder,         \* history
                                               LAMBDA k : Present(jar, k))]))

clear_ready(i) ==
  /\ At(i, "clr_wait") /\ MicroTurn(i)
  /\ Commit(IF Rejected THEN awaitThrew(Cur, i)
            ELSE SetProc(clearDB(Cur), i, [procs[i] EXCEPT !.pc = "clr_db"]))

\* lines 537-539: after clearDB
clearTail(E) ==
  IF E.destroyed THEN E
  ELSE stopGcTimer(Completes(notify(broadcastChange(E, Null, NullEntry)), "clear"))

clear_done(i) ==
  /\ At(i, "clr_db") /\ StoreTurn(i)
  /\ Commit(SetProc(clearTail(Cur), i, Idle))

\* -------------------------------------------------------------- refresh
\* what refresh hands to set() as the fetcher (lines 616, 633)
RefreshFetcher(p) == IF Truthy(p.fid) THEN IdFetcher ELSE PlainFetcher

\* (mutant) the fetched value is thrown away
MutRefreshApply(E, i) ==
  SetProc([E EXCEPT !.obs = Event("resolved", E.procs[i].key,
                                  [mark |-> E.procs[i].mark, applies |-> FALSE])],
          i, Idle)

\* lines 603-617: the fetcher has resolved
refreshApply(E, i) ==
  LET p == E.procs[i]
      applies == ~(E.destroyed \/ ~E.online \/ ~Present(E.jar, p.key)
                   \/ p.gen # E.refreshGenerations[p.key])
      E1 == SetProc([E EXCEPT !.obs = Event("resolved", p.key,
                                            [mark |-> p.mark, applies |-> applies])],
                    i, Idle)
  IN  IF ~applies
      THEN E1
      ELSE setCall(E1, p.key, FetchVal, p.ttl, RefreshFetcher(p), "refresh", p.gen,
                   p.fid, p.mark)

\* (mutant) no retry
MutRefreshCatch(E, i) == SetProc(E, i, Idle)

\* lines 619-625: the fetcher has failed; one retry if the generation still matches
refreshCatch(E, i) ==
  LET p == E.procs[i]
  IN  IF p.gen = E.refreshGenerations[p.key]
      THEN SetProc(E, i, [p EXCEPT !.pc = "rf_retry", !.mark = {}])
      ELSE SetProc(E, i, Idle)

\* lines 626-635: the retry has resolved
retryApply(E, i) ==
  LET p == E.procs[i]
      E1 == SetProc(E, i, Idle)
  IN  IF ~E.destroyed /\ E.online /\ Present(E.jar, p.key)
         /\ p.gen = E.refreshGenerations[p.key]
      THEN setCall(E1, p.key, FetchVal, p.ttl, RefreshFetcher(p), "retry", p.gen,
                   p.fid, p.mark)
      ELSE E1

\* refresh(key) called by the application: a call that passes the guards is in
\* flight, any other has returned and changed nothing.
refresh_call(key) ==
  /\ ~destroyed
  /\ refreshStart(Cur, key, refreshGenerations[key]) # Cur
  /\ Commit(refreshStart(Cur, key, refreshGenerations[key]))

\* the fetcher's promise resolves or rejects: the rest of refresh is queued
refresh_resolved(i) ==
  /\ At(i, "rf_fetch")
  /\ Commit(SetProc(Cur, i, [procs[i] EXCEPT !.pc = "rf_apply"]))

refresh_applied(i) ==
  /\ At(i, "rf_apply") /\ MicroTurn(i)
  /\ Commit(refreshApply(Cur, i))

refresh_failed(i) ==
  /\ At(i, "rf_fetch")
  /\ Commit(SetProc(Cur, i, [procs[i] EXCEPT !.pc = "rf_catch"]))

refresh_caught(i) ==
  /\ At(i, "rf_catch") /\ MicroTurn(i)
  /\ Commit(refreshCatch(Cur, i))

retry_resolved(i) ==
  /\ At(i, "rf_retry")
  /\ Commit(SetProc(Cur, i, [procs[i] EXCEPT !.pc = "rt_apply"]))

retry_applied(i) ==
  /\ At(i, "rt_apply") /\ MicroTurn(i)
  /\ Commit(retryApply(Cur, i))

\* lines 636-638
retry_failed(i) ==
  /\ At(i, "rf_retry")
  /\ Commit(SetProc([Cur EXCEPT !.obs = Event("abandoned", procs[i].key, Null)], i, Idle))

\* The timeout of line 586 runs: refresh(key, gen).  A timeout never runs early;
\* it may run late.
timerFired(E, timer) ==
  LET E1 == [E EXCEPT !.timerQueue = @ \ {timer},
                      !.refreshTimers[timer.key] =
                          IF @ = timer THEN DeadTimer ELSE @,
                      !.obs = Event("timeout", timer.key, timer.removed)]
      E2 == refreshStart(E1, timer.key, timer.gen)
  IN  IF E2 # E1 THEN refreshStart(Disturb(E1, timer.key, "raced"), timer.key, timer.gen)
      ELSE E1

timer_fired(timer) ==
  /\ timer \in timerQueue /\ TaskTurn
  /\ now >= timer.due
  /\ Commit(timerFired(Cur, timer))

\* ------------------------------------------------------ online / offline

RECURSIVE scheduleAll(_, _)
scheduleAll(E, n) ==
  IF n > Len(KeyOrder) THEN E
  ELSE LET k == KeyOrder[n]
       IN  scheduleAll(IF Present(E.jar, k) THEN scheduleRefresh(E, k, E.jar[k].expiry)
                       ELSE E, n + 1)

\* e.expiry - Date.now() <= ttl * 0.15
NearExpiry(e) == (e.expiry - now) * 100 <= TtlOrDefault(e.ttl) * 15

RECURSIVE refreshNear(_, _)
refreshNear(E, n) ==
  IF n > Len(KeyOrder) THEN E
  ELSE LET k == KeyOrder[n]
       IN  refreshNear(IF E.refreshers[k] # Null /\ Present(E.jar, k) /\ NearExpiry(E.jar[k])
                       THEN refreshStart(E, k, E.refreshGenerations[k])
                       ELSE E, n + 1)

\* lines 659-671
handleWentOnline ==
  /\ ~destroyed /\ ~online /\ TaskTurn
  /\ Commit(notify(refreshNear(scheduleAll([Cur EXCEPT !.online = TRUE],
                                           1), 1)))

\* lines 672-678
handleWentOffline ==
  /\ ~destroyed /\ online /\ TaskTurn
  /\ Commit(notify([DisturbAll(Cur, "offline") EXCEPT
                      !.online = FALSE,
                      !.timerQueue = @ \ {refreshTimers[k] : k \in AllKeys},
                      !.refreshTimers = [k \in AllKeys |-> NoTimer]]))

\* ------------------------------------------------------ inbound messages
\* history: the message handled, and whether the store and the channel were
\* left as they were
onmessage(m) ==
  /\ ~destroyed /\ TaskTurn
  /\ LET E == handleRemoteUpdate(Cur, m.key, MessageField(m, "value"))
         quiet == E.db = db /\ E.channel = channel
     IN  Commit([E EXCEPT !.obs = Event("message", m.key,
                                        [entry |-> m.entry, quiet |-> quiet])])

\* ------------------------------------------------------------- destroy
\* destroy(), lines 770-787
destroy ==
  /\ ~destroyed
  /\ Commit([stopGcTimer(DisturbAll(Cur, "destroyed")) EXCEPT
               !.timerQueue = @ \ {refreshTimers[k] : k \in AllKeys},
               !.refreshTimers = [k \in AllKeys |-> NoTimer],
               !.destroyed = TRUE,
               !.obs = Event("destroy", Null, Null)])

\* The operations of the returned object (lines 797-817) that the engine's
\* contract names, and those of them whose first statement is
\* ensureNotDestroyed(): all but ready (line 310).
PublicOps == {"set", "get", "mutate", "remove", "clear", "has", "keys", "size",
              "subscribe", "subscribeKey", "refresh", "registerFetcher",
              "getMissingFetcherIds", "ready"}
Guarded == {"set", "get", "mutate", "remove", "clear", "has", "keys", "size",
            "subscribe", "subscribeKey", "refresh", "registerFetcher",
            "getMissingFetcherIds"}

\* ensureNotDestroyed, lines 790-794, as the first statement of op
ensureNotDestroyed(E, op) ==
  IF E.destroyed /\ op \in Guarded THEN "destroyed" ELSE "passed"

\* A public operation is called on the destroyed engine: it throws (an async one
\* returns a rejected promise), or it goes on; nothing of the engine changes.
called(op) ==
  /\ destroyed
  /\ Commit([Cur EXCEPT !.obs = Event("call", op, ensureNotDestroyed(Cur, op))])

\* ------------------------------------------------------ garbage collection
\* the loop of garbageCollectOnce, lines 692-694: remove(k) runs up to its await;
\* what remove throws is caught and the loop goes on
RECURSIVE gcLoop(_, _, _)
gcLoop(E, i, items) ==
  IF items = <<>> THEN SetProc(E, i, Idle)
  ELSE LET k == Head(items)
       IN  IF E.destroyed \/ ~Present(E.jar, k) THEN gcLoop(E, i, Tail(items))
           ELSE SetProc(removeSync(Disturb(E, k, "swept"), k), i,
                        [E.procs[i] EXCEPT !.pc = "gc_rm", !.rk = k, !.items = Tail(items)])

\* now >= entry.expiry + expiredRetention
Collectable(entry) == now >= entry.expiry + Retention

toRemove(j) == SelectSeq(KeyOrder, LAMBDA k : Present(j, k) /\ Collectable(j[k]))

\* The interval of line 703 runs garbageCollectOnce, lines 683-695.  (The quota
\* check beside it reads navigator.storage, which is outside the engine.)
garbageCollectOnce(E) ==
  LET E1 == Spawn(E, [Idle EXCEPT !.pc = "gc_rm", !.org = "gc"])
      i == CHOOSE x \in Slots : E1.procs[x] # E.procs[x]
  IN  IF E1.ok THEN gcLoop(E1, i, toRemove(E.jar)) ELSE E1

gc_fired ==
  /\ gcTimer /\ TaskTurn
  /\ toRemove(jar) # <<>>
  /\ Commit(garbageCollectOnce(Cur))

gc_removed(i) ==
  /\ At(i, "gc_rm") /\ StoreTurn(i)
  /\ Commit(gcLoop(removeTail(Cur, procs[i].rk), i, procs[i].items))

\* ----------------------------------------------------------------- init
\* init(), lines 254-306: every record of the store is loaded, expired or not;
\* a fresh one whose fetcherId is registered gets its refresher and a refresh.
RECURSIVE loadAll(_, _)
loadAll(E, n) ==
  IF n > Len(KeyOrder) THEN E
  ELSE LET k == KeyOrder[n]
           e == E.db[k]
           E1 == [E EXCEPT !.jar[k] = [value |-> e.value, expiry |-> e.expiry,
                                       ttl |-> e.ttl, fetcherId |-> e.fetcherId],
                           !.accessTimestamps = MapSet(@, k, now),
                           !.recency = Touched(@, k)]
           E2 == IF now < e.expiry /\ Truthy(e.fetcherId)
                    /\ e.fetcherId \in E1.fetcherRegistry
                 THEN scheduleRefresh([E1 EXCEPT !.refreshers[k] = FetcherFn], k, e.expiry)
                 ELSE E1
       IN  loadAll(IF e = NoEntry THEN E ELSE E2, n + 1)

init ==
  /\ ~loaded /\ TaskTurn
  /\ LET E == IF idb = "noopen" THEN Cur                  \* line 256 throws
              ELSE notify(IF idb = "ok" THEN loadAll(Cur, 1)
                          ELSE Cur)                        \* line 260: catch(() => [])
     IN  /\ E.ok
         /\ told' = E.told
         /\ \A k \in AllKeys : E.refreshGenerations[k] <= MaxGen
         /\ jar' = E.jar
         /\ accessTimestamps' = E.accessTimestamps
         /\ refreshers' = E.refreshers
         /\ refreshGenerations' = E.refreshGenerations
         /\ refreshTimers' = E.refreshTimers
         /\ timerQueue' = E.timerQueue
         /\ procs' = E.procs
         /\ micro' = E.micro
         /\ dbq' = E.dbq
         /\ recency' = E.recency
  /\ loaded' = TRUE
  /\ obs' = Quiet
  /\ completed' = {}
  /\ UNCHANGED <<now, maxSize, fetcherRegistry, gcTimer, online, destroyed, db,
                 idb, channel, kept, subscribers, keySubscribers, setForKey,
                 unsubscribers, peer, biscuitV2>>

\* ---------------------------------------------------------------- clock
tick ==
  /\ now < MaxTime
  /\ now' = now + 1
  /\ obs' = Quiet
  /\ told' = <<>>
  /\ completed' = {}
  /\ UNCHANGED <<loaded, maxSize, jar, accessTimestamps, refreshers, fetcherRegistry,
                 refreshGenerations, refreshTimers, timerQueue, gcTimer, online,
                 destroyed, db, idb, channel, procs, micro, dbq, recency, kept,
                 subscribers, keySubscribers, setForKey, unsubscribers, peer,
                 biscuitV2>>

\* -------------------------------------------------------- the engine
EmptyStore == [k \in AllKeys |-> NoEntry]
EmptyJar == [k \in AllKeys |-> NoEntry]

\* The state createBiscuitV2({ maxBytes }) returns in (biscuitV2.js): its table,
\* its access index in insertion order, the running byte total, the
\* MemoryAdapter's store, and the set() calls in flight with their order of
\* resumption.  done is history: what the last step of this engine ended.
IdleV2 == [pc |-> "idle", key |-> Null]
CreatedV2 == [jar |-> [k \in AllKeys |-> NoEntry], accessTimestamps |-> <<>>,
              totalBytes |-> 0, store |-> [k \in AllKeys |-> NoEntry],
              calls |-> [i \in Slots |-> IdleV2], queue |-> <<>>,
              destroyed |-> FALSE, done |-> "none"]

\* The state createBiscuit() returns in, over a given store.
CreatedWith(store, size, mode, other) ==
  /\ idb = mode
  /\ peer = other
  /\ now = 0
  /\ loaded = FALSE
  /\ maxSize = size
  /\ jar = [k \in AllKeys |-> NoEntry]
  /\ accessTimestamps = <<>>
  /\ refreshers = [k \in AllKeys |-> Null]
  /\ fetcherRegistry = {}
  /\ refreshGenerations = [k \in AllKeys |-> Undef]
  /\ refreshTimers = [k \in AllKeys |-> NoTimer]
  /\ timerQueue = {}
  /\ gcTimer = FALSE
  /\ online = TRUE
  /\ destroyed = FALSE
  /\ db = store
  /\ channel = Message(Null, NullEntry)
  /\ procs = [i \in Slots |-> Idle]
  /\ micro = <<>>
  /\ dbq = <<>>
  /\ subscribers = {}
  /\ keySubscribers = [k \in AllKeys |-> NoSet]
  /\ setForKey = [o \in SetObjects |-> {}]
  /\ unsubscribers = <<>>
  /\ told = <<>>
  /\ completed = {}
  /\ recency = <<>>
  /\ kept = [k \in AllKeys |-> NoKeep]
  /\ obs = Quiet
  /\ biscuitV2 = CreatedV2

CreatedOver(store, size, mode) == CreatedWith(store, size, mode, EmptyJar)
Created(store, size) == CreatedOver(store, size, "ok")

Init == Created(EmptyStore, 0)

\* What a peer running this engine posts: the message of a set, of a deletion
\* and of a clear.
PeerMessages(K) ==
  {Message(k, Record(v, TTL, TTL, Null)) : k \in K, v \in UserVals}
    \cup {Message(k, NullEntry) : k \in K} \cup {Message(Null, NullEntry)}

Fetchers == {NoFetcher, PlainFetcher, IdFetcher}

\* One step of the engine over the keys K.
Step(K) ==
  \/ init
  \/ tick
  \/ \E k \in K, v \in UserVals, f \in Fetchers : set_call(k, v, TTL, f)
  \/ \E i \in Slots : set_ready(i)
  \/ \E i \in Slots : set_persisted(i)
  \/ \E i \in Slots : set_evicted(i)
  \/ \E k \in K, e \in BOOLEAN, w \in BOOLEAN : get_call(k, e, w)
  \/ \E i \in Slots : get_ready(i)
  \/ \E i \in Slots : get_removed(i)
  \/ \E i \in Slots : get_persisted(i)
  \/ \E k \in K : mutate_call(k)
  \/ \E i \in Slots : mutate_got(i)
  \/ \E i \in Slots : mutate_resolved(i)
  \/ \E i \in Slots : mutate_applied(i)
  \/ \E i \in Slots : mutate_rejected(i)
  \/ \E k \in K : remove_call(k)
  \/ \E i \in Slots : remove_done(i)
  \/ clear_call
  \/ \E i \in Slots : clear_ready(i)
  \/ \E i \in Slots : clear_done(i)
  \/ \E k \in K : refresh_call(k)
  \/ \E i \in Slots : refresh_resolved(i)
  \/ \E i \in Slots : refresh_applied(i)
  \/ \E i \in Slots : refresh_failed(i)
  \/ \E i \in Slots : refresh_caught(i)
  \/ \E i \in Slots : retry_resolved(i)
  \/ \E i \in Slots : retry_applied(i)
  \/ \E i \in Slots : retry_failed(i)
  \/ \E t \in timerQueue : timer_fired(t)
  \/ handleWentOnline
  \/ handleWentOffline
  \/ \E m \in PeerMessages(K) : onmessage(m)
  \/ gc_fired
  \/ \E i \in Slots : gc_removed(i)
  \/ destroy

Next == Step(Keys)
Spec == Init /\ [][Next]_vars

\* ------------------------------------------------- refresh against writes
\* An engine whose application sets and removes one key with a refresher,
\* refreshes it, and whose peers post messages about it.
K1 == {"a"}

NextRefresh ==
  \/ init
  \/ tick
  \/ \E k \in K1, v \in UserVals : set_call(k, v, TTL, PlainFetcher)
  \/ \E i \in Slots : set_ready(i)
  \/ \E i \in Slots : set_persisted(i)
  \/ \E k \in K1 : remove_call(k)
  \/ \E i \in Slots : remove_done(i)
  \/ \E i \in Slots : refresh_resolved(i)
  \/ \E i \in Slots : refresh_applied(i)
  \/ \E i \in Slots : refresh_failed(i)
  \/ \E i \in Slots : refresh_caught(i)
  \/ \E i \in Slots : retry_resolved(i)
  \/ \E i \in Slots : retry_applied(i)
  \/ \E i \in Slots : retry_failed(i)
  \/ \E t \in timerQueue : timer_fired(t)
  \/ \E m \in PeerMessages(K1) : onmessage(m)

SpecRefresh == Init /\ [][NextRefresh]_vars

\* has(key), line 643
has(j, key) == Present(j, key) /\ now < j[key].expiry

\* ------------------------------------------------------------ set then get
\* An engine whose application sets, gets and removes one key (no refresher),
\* with the refresh timeouts and the sweep running.
NextCache ==
  \/ init
  \/ tick
  \/ \E k \in K1, v \in UserVals : set_call(k, v, TTL, NoFetcher)
  \/ \E i \in Slots : set_ready(i)
  \/ \E i \in Slots : set_persisted(i)
  \/ \E k \in K1, e \in BOOLEAN : get_call(k, e, FALSE)
  \/ \E i \in Slots : get_ready(i)
  \/ \E i \in Slots : get_removed(i)
  \/ \E i \in Slots : get_persisted(i)
  \/ \E k \in K1 : remove_call(k)
  \/ \E i \in Slots : remove_done(i)
  \/ \E t \in timerQueue : timer_fired(t)
  \/ gc_fired
  \/ \E i \in Slots : gc_removed(i)
  \/ handleWentOnline
  \/ handleWentOffline

SpecCache == Init /\ [][NextCache]_vars

\* the set() of the application that wrote key last has returned and its ttl
\* has not run out
Settled(key) == kept[key] # NoKeep /\ kept[key].done /\ now < kept[key].until

Sequential == \A i \in Slots : procs[i].pc = "idle"

InitLru == Created(EmptyStore, MaxSizeLru)

NextLru ==
  \/ init
  \/ tick
  \/ \E k \in AllKeys : Sequential /\ set_call(k, "v1", TTL, NoFetcher)
  \/ \E i \in Slots : set_ready(i)
  \/ \E i \in Slots : set_persisted(i)
  \/ \E i \in Slots : set_evicted(i)
  \/ \E k \in AllKeys : Sequential /\ get_call(k, TRUE, FALSE)
  \/ \E i \in Slots : get_ready(i)
  \/ \E i \in Slots : get_removed(i)
  \/ \E i \in Slots : get_persisted(i)

SpecLru == InitLru /\ [][NextLru]_vars

\* C7: with maxSize = N and calls run one at a time, the jar holds at most N keys
\* between calls, and the key a set() evicts is the least recently touched one,
\* never the key just written.
C7_EvictsLeastRecentlyTouched ==
  /\ Sequential => jarSize(jar) <= maxSize
  /\ obs.ev = "evict" => /\ obs.key = obs.val.lru
                         /\ obs.key # obs.val.written

\* ------------------------------------------------ stale-while-revalidate
\* One key with a refresher, read with staleWhileRevalidate, while the timeouts,
\* the sweep and the online / offline events of the page go on.
NextSwr ==
  \/ init
  \/ tick
  \/ \E k \in K1 : set_call(k, "v1", TTL, PlainFetcher)
  \/ \E i \in Slots : set_ready(i)
  \/ \E i \in Slots : set_persisted(i)
  \/ \E k \in K1 : get_call(k, TRUE, TRUE)
  \/ \E i \in Slots : get_ready(i)
  \/ \E i \in Slots : get_persisted(i)
  \/ \E i \in Slots : refresh_resolved(i)
  \/ \E i \in Slots : refresh_applied(i)
  \/ \E i \in Slots : refresh_failed(i)
  \/ \E i \in Slots : refresh_caught(i)
  \/ \E i \in Slots : retry_resolved(i)
  \/ \E i \in Slots : retry_applied(i)
  \/ \E i \in Slots : retry_failed(i)
  \/ \E t \in timerQueue : timer_fired(t)
  \/ gc_fired
  \/ \E i \in Slots : gc_removed(i)
  \/ handleWentOnline
  \/ handleWentOffline
  \/ destroy

SpecSwr == Init /\ [][NextSwr]_vars

\* What the application, and what the page and the engine's own timers, can do to
\* a key between the stale read and the refresher's result.
ByTheApplication == {"busy", "written", "read", "removed"}
ByThePage == {"offline", "destroyed", "raced", "swept"}

\* The stale read: the old value is returned, the entry stays, and the refresh
\* the read started is still waiting for its fetcher.
StaleServed ==
  obs.ev = "stale" =>
    /\ Present(jar, obs.key) /\ jar[obs.key].value = obs.val.value
    /\ now > jar[obs.key].expiry
    /\ obs.val.slot # 0 => /\ Revalidating(procs[obs.val.slot])
                           /\ procs[obs.val.slot].pc = "rf_fetch"

\* The result of the refresh a stale read started, undisturbed by Others: it is
\* written, with an expiry one ttl ahead.
Revalidated(Others) ==
  /\ (obs.ev = "resolved" /\ "swr" \in obs.val.mark /\ obs.val.mark \cap Others = {})
       => obs.val.applies
  /\ (obs.ev = "refreshed" /\ "swr" \in obs.val.mark /\ obs.val.mark \cap Others = {})
       => /\ Present(jar, obs.key) /\ jar[obs.key].value = FetchVal
          /\ jar[obs.key].expiry = now + obs.val.ttl /\ jar[obs.key].expiry > now

\* C8 (as stated): a staleWhileRevalidate get() of an expired entry with a
\* refresher returns the old value at once and keeps the entry; when the refresher
\* has resolved, no other call on the key in between, the entry holds the fetched
\* value and a fresh expiry.
C8_Original == StaleServed /\ Revalidated(ByTheApplication)

\* C8 (amended): the same, for a refresher that resolves while the engine has
\* stayed online and undestroyed, and with no other refresh and no sweep of the
\* key in between either.
C8_StaleWhileRevalidate == StaleServed /\ Revalidated(ByTheApplication \cup ByThePage)

C8_Witness ==
  /\ obs.ev = "refreshed" /\ obs.val.mark = {"swr"}
  /\ jar[obs.key].value = FetchVal

\* -------------------------------------------------------------- destroy
\* One key with a refresher is written and refreshed; the engine is destroyed at
\* any moment, calls still running, and is called again afterwards.
NextDestroy ==
  \/ init
  \/ tick
  \/ \E k \in K1 : set_call(k, "v1", TTL, PlainFetcher)
  \/ \E i \in Slots : set_ready(i)
  \/ \E i \in Slots : set_persisted(i)
  \/ \E t \in timerQueue : timer_fired(t)
  \/ \E i \in Slots : refresh_resolved(i)
  \/ \E i \in Slots : refresh_applied(i)
  \/ destroy
  \/ \E op \in PublicOps : called(op)

SpecDestroy == Init /\ [][NextDestroy]_vars

\* C9: every public operation called on a destroyed engine fails with the
\* destroyed-instance error.
C9_DestroyedRejectsEveryCall ==
  obs.ev = "call" => obs.val = "destroyed"

\* C10: in the state destroy() returns in, the jar is empty and neither a refresh
\* timeout nor the sweep's interval is pending.
C10_DestroyLeavesNothing ==
  obs.ev = "destroy" => /\ jarKeys(jar) = {}
                        /\ timerQueue = {}
                        /\ ~gcTimer

\* C11: once destroy() has returned, no step changes the jar, the access index or
\* the refresher bindings, and none starts a refresh timeout or the sweep's
\* interval, calls suspended at an await when destroy() was called included.
C11_InertAfterDestroy ==
  [][destroyed => /\ jar' = jar
                  /\ accessTimestamps' = accessTimestamps
                  /\ refreshers' = refreshers
                  /\ timerQueue' \subseteq timerQueue
                  /\ (gcTimer' => gcTimer)]_vars

\* ------------------------------------------------------ a failing store
\* One key is written, read, removed and cleared over a store that holds a
\* record and works, cannot be opened, or fails every request.
StoreModes == {"ok", "noopen", "norequest"}
StoredRecord == [EmptyStore EXCEPT !["a"] = Record("v1", TTL, TTL, Null)]

InitStore == \E mode \in StoreModes : CreatedOver(StoredRecord, 0, mode)

NextStore ==
  \/ init
  \/ tick
  \/ \E k \in K1, v \in UserVals : set_call(k, v, TTL, NoFetcher)
  \/ \E i \in Slots : set_ready(i)
  \/ \E i \in Slots : set_persisted(i)
  \/ \E k \in K1 : get_call(k, TRUE, FALSE)
  \/ \E i \in Slots : get_ready(i)
  \/ \E i \in Slots : get_removed(i)
  \/ \E i \in Slots : get_persisted(i)
  \/ \E k \in K1 : remove_call(k)
  \/ \E i \in Slots : remove_done(i)
  \/ clear_call
  \/ \E i \in Slots : clear_ready(i)
  \/ \E i \in Slots : clear_done(i)

SpecStore == InitStore /\ [][NextStore]_vars

\* C12: whatever the store does, no set, get, remove or clear ends with an error,
\* and a key the application has set is in the jar with the value set.
C12_StoreFailureNeverFails ==
  /\ obs.ev # "threw"
  /\ \A k \in K1 : Settled(k) => Present(jar, k) /\ jar[k].value = kept[k].val

\* ------------------------------------------------------ a failing refresher
\* One key with a refresher that may fail, refreshed by its timeouts and by the
\* application, while the key is set and removed.
NextRetry ==
  \/ init
  \/ tick
  \/ \E k \in K1 : set_call(k, "v1", TTL, PlainFetcher)
  \/ \E i \in Slots : set_ready(i)
  \/ \E i \in Slots : set_persisted(i)
  \/ \E k \in K1 : remove_call(k)
  \/ \E i \in Slots : remove_done(i)
  \/ \E k \in K1 : refresh_call(k)
  \/ \E i \in Slots : refresh_resolved(i)
  \/ \E i \in Slots : refresh_applied(i)
  \/ \E i \in Slots : refresh_failed(i)
  \/ \E i \in Slots : refresh_caught(i)
  \/ \E i \in Slots : retry_resolved(i)
  \/ \E i \in Slots : retry_applied(i)
  \/ \E i \in Slots : retry_failed(i)
  \/ \E t \in timerQueue : timer_fired(t)

SpecRetry == Init /\ [][NextRetry]_vars

\* The steps of a refresh whose fetcher fails: the failure, the catch block, the
\* failure of the retry.
FailureStep(i) ==
  <<procs[i].pc, procs'[i].pc>> \in {<<"rf_fetch", "rf_catch">>, <<"rf_catch", "rf_retry">>,
                                     <<"rf_catch", "idle">>, <<"rf_retry", "idle">>}

\* The catch block of the refresh in slot i runs.
Caught(i) == procs[i].pc = "rf_catch" /\ procs'[i].pc # "rf_catch"

\* After the retry the refresher is not invoked again; the steps of a failing
\* refresh leave the entries as they are and throw nothing.
RetryIsLast(i) ==
  /\ procs[i].pc = "rf_retry" => procs'[i].pc \in {"rf_retry", "rt_apply", "idle"}
  /\ FailureStep(i) => jar' = jar /\ obs'.ev # "threw"

\* C13 (as stated): a refresher that has failed is invoked once more, at once, and
\* never a third time; when the retry fails too the entry is as it was and no
\* error is thrown.
C13_Original ==
  [][\A i \in Slots : /\ Caught(i) => procs'[i].pc = "rf_retry"
                      /\ RetryIsLast(i)]_vars

\* C13 (amended): the same, the refresher being invoked once more exactly when
\* the key's generation still is the one the refresh started with.
C13_RetryOnce ==
  [][\A i \in Slots :
       /\ Caught(i) => (procs'[i].pc = "rf_retry"
                          <=> procs[i].gen = refreshGenerations[procs[i].key])
       /\ RetryIsLast(i)]_vars

C13_Witness == obs.ev = "abandoned" /\ Present(jar, obs.key)

\* ------------------------------------------------------ malformed arguments
\* One key with a refresher is set and refreshed by its timeouts, while set, get,
\* remove and mutate are called with arguments that are no key, and mutate with
\* no function.
ArgKeys == K1 \cup BadKeys

NextArgs ==
  \/ init
  \/ tick
  \/ \E k \in ArgKeys : set_call(k, "v1", TTL, PlainFetcher)
  \/ \E i \in Slots : set_ready(i)
  \/ \E i \in Slots : set_persisted(i)
  \/ \E t \in timerQueue : timer_fired(t)
  \/ \E i \in Slots : refresh_resolved(i)
  \/ \E i \in Slots : refresh_applied(i)
  \/ \E k \in BadKeys : get_call(k, TRUE, FALSE)
  \/ \E k \in BadKeys : remove_call(k)
  \/ \E k \in BadKeys : mutate_call(k)
  \/ \E k \in K1 : mutate_no_function(k)

SpecArgs == Init /\ [][NextArgs]_vars

\* C14: a call of set, get, remove or mutate with an argument that is no key, or
\* of mutate with no function, throws: it leaves the jar, the access index, the
\* refreshers, the generations, the timers and the store as they were, and no
\* call of the application ever runs on such a key.
C14_InvalidArgumentChangesNothing ==
  [][/\ obs'.ev = "invalid" =>
          UNCHANGED <<jar, accessTimestamps, refreshers, refreshGenerations,
                      refreshTimers, timerQueue, gcTimer, db, procs>>
     /\ \A i \in Slots : procs'[i].org \in {"user", "mutate"} /\ procs'[i].pc # "idle"
                            => procs'[i].key \notin BadKeys]_vars

C14_Witness ==
  /\ obs.ev = "invalid" /\ obs.key \in BadKeys
  /\ jarKeys(jar) # {} /\ timerQueue # {}

\* ------------------------------------------------------- subscriptions
\* The function subscribe or subscribeKey returned: what its closure holds (fn,
\* and for subscribeKey the key and the Set object setForKey), and how many times
\* it was called.
Unsubscriber(kind, fn, key, object) ==
  [kind |-> kind, fn |-> fn, key |-> key, object |-> object, calls |-> 0]

\* subscribe(fn), line 542
subscribe(fn) ==
  /\ ~destroyed
  /\ Len(unsubscribers) < MaxUnsubscribers
  /\ LET E1 == [Cur EXCEPT !.subscribers = @ \cup {fn}]
     IN  Commit([E1 EXCEPT
                   !.told = @ \o <<Call(fn, Null, getAll(E1))>>,
                   !.unsubscribers = Append(@, Unsubscriber("all", fn, Null, NoSet)),
                   !.obs = Event("subscribe", Null, fn)])

\* new Set(): an object no closure and no entry of keySubscribers refers to
Referenced(E) ==
  {E.keySubscribers[k] : k \in AllKeys}
    \cup {E.unsubscribers[n].object : n \in 1..Len(E.unsubscribers)}
NewSet(E) == CHOOSE o \in SetObjects : o \notin Referenced(E)

\* subscribeKey(key, fn), lines 543-561
subscribeKey(key, fn) ==
  /\ ~destroyed
  /\ validKey(key)
  /\ Len(unsubscribers) < MaxUnsubscribers
  /\ LET known == keySubscribers[key] # NoSet
         object == IF known THEN keySubscribers[key] ELSE NewSet(Cur)
         E1 == [Cur EXCEPT !.keySubscribers[key] = object,
                           !.setForKey[object] = (IF known THEN @ ELSE {}) \cup {fn}]
     IN  Commit([E1 EXCEPT
                   !.told = @ \o <<Call(fn, key, valueOrNull(E1, key))>>,
                   !.unsubscribers = Append(@, Unsubscriber("key", fn, key, object)),
                   !.obs = Event("subscribe", key, fn)])

\* (mutant) the function subscribeKey returns leaves the Set in place
MutUnsubscribeKey(E, u) == [E EXCEPT !.setForKey[u.object] = @ \ {u.fn}]

\* the function subscribeKey returned, lines 556-560
unsubscribeKey(E, u) ==
  LET E1 == [E EXCEPT !.setForKey[u.object] = @ \ {u.fn}]
  IN  IF E1.setForKey[u.object] = {}
      THEN [E1 EXCEPT !.keySubscribers[u.key] = NoSet]
      ELSE E1

\* A function subscribe or subscribeKey returned is called; no guard of the
\* engine is in its way.  The model follows its first two calls.
unsubscribe(n) ==
  /\ n \in 1..Len(unsubscribers)
  /\ unsubscribers[n].calls < 2
  /\ LET u == unsubscribers[n]
         E1 == IF u.kind = "all"
               THEN [Cur EXCEPT !.subscribers = @ \ {u.fn}]   \* line 542
               ELSE unsubscribeKey(Cur, u)
     IN  Commit([E1 EXCEPT
                   !.unsubscribers[n].calls = @ + 1,
                   !.obs = Event("unsubscribe", u.key,
                                 [fn |-> u.fn, again |-> u.calls >= 1])])

\* Who notify() would call: <<key, fn>>, key Null for the whole cache.
Listening ==
  {<<Null, f>> : f \in subscribers}
    \cup {kf \in AllKeys \X Fns : /\ keySubscribers[kf[1]] # NoSet
                                 /\ kf[2] \in setForKey[keySubscribers[kf[1]]]}

NextSubs ==
  \/ init
  \/ \E k \in K1 : set_call(k, "v1", TTL, NoFetcher)
  \/ \E i \in Slots : set_ready(i)
  \/ \E i \in Slots : set_persisted(i)
  \/ \E f \in Fns : subscribe(f)
  \/ \E k \in K1, f \in Fns : subscribeKey(k, f)
  \/ \E n \in 1..MaxUnsubscribers : unsubscribe(n)

SpecSubs == Init /\ [][NextSubs]_vars

\* C15: calling an unsubscribe function a second time removes or silences no
\* subscription of another callback: whoever else was listening before the call,
\* for the whole cache or for a key, is listening after it, a subscription made
\* for the same key after the first call included.
C15_UnsubscribeIdempotent ==
  [][obs'.ev = "unsubscribe" /\ obs'.val.again =>
       \A kf \in Listening : kf[2] # obs'.val.fn => kf \in Listening']_vars

\* ------------------------------------------------------- notifications
\* An application that subscribes and unsubscribes while it sets, gets, removes
\* and clears one key, one call at a time, entries expire, and a peer posts
\* deletions.
NextNotify ==
  \/ init
  \/ tick
  \/ \E k \in K1 : Sequential /\ set_call(k, "v1", TTL, NoFetcher)
  \/ \E i \in Slots : set_ready(i)
  \/ \E i \in Slots : set_persisted(i)
  \/ \E k \in K1 : Sequential /\ remove_call(k)
  \/ \E i \in Slots : remove_done(i)
  \/ Sequential /\ clear_call
  \/ \E i \in Slots : clear_ready(i)
  \/ \E i \in Slots : clear_done(i)
  \/ \E k \in K1 : Sequential /\ get_call(k, FALSE, FALSE)
  \/ \E i \in Slots : get_ready(i)
  \/ \E i \in Slots : get_removed(i)
  \/ \E k \in K1 : onmessage(Message(k, NullEntry))
  \/ subscribe("f")
  \/ \E k \in K1, f \in Fns : subscribeKey(k, f)
  \/ \E n \in 1..MaxUnsubscribers : unsubscribe(n)

SpecNotify == Init /\ [][NextNotify]_vars

\* A subscriber is <<key, fn>>, key Null for the whole cache.  It is subscribed
\* when an unsubscribe function of it was handed out and none of its unsubscribe
\* functions was called; unsubscribed when all of them were called.
Handed(kf) == {n \in 1..Len(unsubscribers) :
                 unsubscribers[n].key = kf[1] /\ unsubscribers[n].fn = kf[2]}
Subscribers == {<<unsubscribers[n].key, unsubscribers[n].fn>> :
                  n \in 1..Len(unsubscribers)}
Subscribed == {kf \in Subscribers : \A n \in Handed(kf) : unsubscribers[n].calls = 0}
Unsubscribed == {kf \in Subscribers : \A n \in Handed(kf) : unsubscribers[n].calls > 0}

\* the state a subscriber is owed, and the calls the last step made to it
StateFor(kf) == IF kf[1] = Null THEN getAll([jar |-> jar])
                ELSE valueOrNull([jar |-> jar], kf[1])
ToldTo(kf) == SelectSeq(told, LAMBDA c : c.key = kf[1] /\ c.fn = kf[2])
ToldOnce(kf) == ToldTo(kf) = <<Call(kf[2], kf[1], StateFor(kf))>>

\* C16: the step that subscribes a callback calls it once, and nobody else, with
\* the state of that moment; a step that completes a set, a remove, a clear, the
\* removal of an expired entry or an inbound change calls every subscribed one
\* once, with the state of that moment; no step calls an unsubscribed one.
C16_SubscribersAreTold ==
  /\ obs.ev = "subscribe" => /\ told = ToldTo(<<obs.key, obs.val>>)
                              /\ ToldOnce(<<obs.key, obs.val>>)
  /\ completed # {} => \A kf \in Subscribed : ToldOnce(kf)
  /\ \A kf \in Unsubscribed : ToldTo(kf) = <<>>

\* ------------------------------------------------------ expiry on access
\* An application that sets one key, with a refresher, and gets it with every
\* choice of options, while time passes and two callbacks listen.
NextExpiry ==
  \/ init
  \/ tick
  \/ \E k \in K1 : Sequential /\ set_call(k, "v1", TTL, PlainFetcher)
  \/ \E i \in Slots : set_ready(i)
  \/ \E i \in Slots : set_persisted(i)
  \/ \E t \in timerQueue : timer_fired(t)
  \/ \E i \in Slots : refresh_resolved(i)
  \/ \E i \in Slots : refresh_failed(i)
  \/ \E i \in Slots : refresh_applied(i)
  \/ \E i \in Slots : refresh_caught(i)
  \/ \E i \in Slots : retry_failed(i)
  \/ \E k \in K1, e \in BOOLEAN, w \in BOOLEAN : Sequential /\ get_call(k, e, w)
  \/ \E i \in Slots : get_ready(i)
  \/ \E i \in Slots : get_removed(i)
  \/ \E i \in Slots : get_persisted(i)
  \/ subscribe("f")
  \/ \E k \in K1 : subscribeKey(k, "g")

SpecExpiry == Init /\ [][NextExpiry]_vars

\* get() of the application resumes after dbReady
GetResumes(i) == /\ procs[i].pc = "get_ready" /\ procs[i].org = "user"
                 /\ procs'[i] # procs[i]
Indexed(k) == \E n \in 1..Len(accessTimestamps) : accessTimestamps[n].k = k
EveryoneTold == \A kf \in Listening : ToldOnce(kf)

LoadedJar(store) ==
  [k \in AllKeys |-> IF store[k] = NoEntry THEN NoEntry
                     ELSE [value |-> store[k].value, expiry |-> store[k].expiry,
                           ttl |-> store[k].ttl, fetcherId |-> store[k].fetcherId]]

InitPeers == CreatedWith(StoredRecord, 0, "ok", LoadedJar(StoredRecord))

NextPeers ==
  \/ init
  \/ tick
  \/ \E k \in K1, v \in UserVals : Sequential /\ set_call(k, v, TTL, NoFetcher)
  \/ \E i \in Slots : set_ready(i)
  \/ \E i \in Slots : set_persisted(i)
  \/ \E k \in K1 : Sequential /\ remove_call(k)
  \/ \E i \in Slots : remove_done(i)
  \/ Sequential /\ clear_call
  \/ \E i \in Slots : clear_ready(i)
  \/ \E i \in Slots : clear_done(i)
  \/ \E k \in K1 : Sequential /\ get_call(k, FALSE, FALSE)
  \/ \E i \in Slots : get_ready(i)
  \/ \E i \in Slots : get_removed(i)
  \/ Sequential /\ gc_fired
  \/ \E i \in Slots : gc_removed(i)

SpecPeers == InitPeers /\ [][NextPeers]_vars

\* the keys a clear() that completes has deleted
Cleared(i) == {procs[i].items[n] : n \in 1..Len(procs[i].items)}

\* C18: when a remove, a removal by the sweep or a removal on access completes,
\* the peer's jar does not hold the key; when a clear completes, the peer's jar
\* holds none of the keys the clear deleted.
C18_DeletionsReachPeers ==
  [][/\ completed' \cap {"remove", "expiry"} # {} => ~Present(peer', channel'.key)
     /\ \A i \in Slots :
          procs[i].pc = "clr_db" /\ "clear" \in completed'
            => \A k \in Cleared(i) : ~Present(peer', k)]_vars

\* ------------------------------------------------- fetcher registration
\* (mutant) the id is registered and no entry is bound
MutBindAll(E, id, n) == E

\* registerFetcher, the loop of lines 722-727
RECURSIVE bindAll(_, _, _)
bindAll(E, id, n) ==
  IF n > Len(KeyOrder) THEN E
  ELSE LET k == KeyOrder[n]
       IN  bindAll(IF Present(E.jar, k) /\ E.jar[k].fetcherId = id
                   THEN scheduleRefresh([E EXCEPT !.refreshers[k] = FetcherFn], k,
                                        E.jar[k].expiry)
                   ELSE E, id, n + 1)

\* registerFetcher(id, fn), lines 717-728, with a truthy id and a function
registerFetcher(id) ==
  /\ ~destroyed
  /\ Commit([bindAll([Cur EXCEPT !.fetcherRegistry = @ \cup {id}], id, 1)
               EXCEPT !.obs = Event("registered", id, Null)])

\* getMissingFetcherIds(), lines 729-735
getMissingFetcherIds(E) ==
  {E.jar[k].fetcherId : k \in {x \in AllKeys : /\ Present(E.jar, x)
                                               /\ Truthy(E.jar[x].fetcherId)
                                               /\ E.jar[x].fetcherId \notin E.fetcherRegistry}}

missing_asked ==
  /\ ~destroyed
  /\ Commit([Cur EXCEPT !.obs = Event("missing", Null, getMissingFetcherIds(Cur))])

\* A page that starts over a store whose entry was written with a fetcher id,
\* asks which ids are missing and registers the fetcher, at any moment, online
\* or offline; refreshes run and the application gets and removes the key.
StoredWithId == [EmptyStore EXCEPT !["a"] = Record("v1", TTL, TTL, FetcherId)]
InitFetchers == CreatedOver(StoredWithId, 0, "ok")

NextFetchers ==
  \/ init
  \/ tick
  \/ registerFetcher(FetcherId)
  \/ missing_asked
  \/ handleWentOnline
  \/ handleWentOffline
  \/ \E t \in timerQueue : timer_fired(t)
  \/ \E i \in Slots : refresh_resolved(i)
  \/ \E i \in Slots : refresh_applied(i)
  \/ \E i \in Slots : refresh_failed(i)
  \/ \E i \in Slots : refresh_caught(i)
  \/ \E i \in Slots : retry_resolved(i)
  \/ \E i \in Slots : retry_applied(i)
  \/ \E i \in Slots : retry_failed(i)
  \/ \E i \in Slots : set_ready(i)
  \/ \E i \in Slots : set_persisted(i)
  \/ \E k \in K1 : Sequential /\ get_call(k, TRUE, FALSE)
  \/ \E i \in Slots : get_ready(i)
  \/ \E i \in Slots : get_removed(i)
  \/ \E i \in Slots : get_persisted(i)

SpecFetchers == InitFetchers /\ [][NextFetchers]_vars

\* the entries that carry id, and whether a refresh of key is pending: its
\* timeout is set, or its fetcher has been called
Carrying(id) == {k \in AllKeys : Present(jar, k) /\ jar[k].fetcherId = id}
RefreshPending(k) ==
  \/ refreshTimers[k] \in timerQueue
  \/ \E i \in Slots : /\ procs[i].key = k /\ procs[i].pc = "rf_fetch"
                      /\ procs[i].gen = refreshGenerations[k]
Unbound == {jar[k].fetcherId : k \in {x \in AllKeys : /\ Present(jar, x)
                                                       /\ Truthy(jar[x].fetcherId)}}
             \ fetcherRegistry
Answered == obs.ev = "missing" => obs.val = Unbound
Bound == obs.ev = "registered" =>
           /\ obs.key \in fetcherRegistry
           /\ \A k \in Carrying(obs.key) : refreshers[k] = FetcherFn
PendingIf(cond) == obs.ev = "registered" /\ cond =>
                     \A k \in Carrying(obs.key) : RefreshPending(k)

\* C19 as the specification states it: after registerFetcher every entry that
\* carries the id has the refresher and a refresh pending.
C19_Original == Bound /\ PendingIf(TRUE)

\* C19: getMissingFetcherIds returns exactly the ids carried by entries and not
\* registered; after registerFetcher every entry that carries the id has the
\* refresher and, if the engine is online, a refresh pending; a registered id
\* stays registered, so that it is not reported missing again.
C19_RegisterFetcher ==
  [][/\ Answered' /\ Bound' /\ PendingIf(online)'
     /\ fetcherRegistry \subseteq fetcherRegistry']_vars

\* the fetcher of a loaded entry was registered and its refresh is pending
C19_Witness ==
  /\ obs.ev = "registered" /\ Carrying(obs.key) # {}
  /\ \A k \in Carrying(obs.key) : RefreshPending(k)

\* ------------------------------------------------------------ the sweep
\* An engine that starts over a store holding an entry; its application sets the
\* key, one call at a time.  Time passes, every call that has been started goes
\* on, and the interval of the sweep, while it is set, keeps firing.  (The
\* application stops setting before the generation of the key reaches its cap,
\* so that the cap never stands in the way of the sweep.)
NextSweep ==
  \/ init
  \/ tick
  \/ \E k \in K1, v \in UserVals :
        /\ Sequential /\ GenOr0(refreshGenerations, k) + 1 < MaxGen
        /\ set_call(k, v, TTL, NoFetcher)
  \/ \E i \in Slots : set_ready(i)
  \/ \E i \in Slots : set_persisted(i)
  \/ gc_fired
  \/ \E i \in Slots : gc_removed(i)

InitSweep == CreatedOver(StoredRecord, 0, "ok")

\* what goes on by itself: the clock, and the calls that have been started
Goes ==
  \/ init
  \/ tick
  \/ \E i \in Slots : set_ready(i) \/ set_persisted(i) \/ gc_removed(i)

SpecSweep ==
  /\ InitSweep /\ [][NextSweep]_vars
  /\ WF_vars(Goes) /\ WF_vars(gc_fired)

Due(k) == Present(jar, k) /\ Collectable(jar[k])

\* C20: an entry whose expiry plus retention has elapsed eventually is in the
\* jar no more, whether it was written by set() or loaded when the engine started.
C20_SweepRemovesDue == \A k \in K1 : Due(k) ~> ~Due(k)

\* ------------------------------------------------- a refresher that hangs
\* The application sets keys with a refresher, forces a refresh, and sets, gets,
\* mutates, removes and clears, one call at a time.  No refresher ever resolves
\* or rejects; every mutator resolves, and every call that has been started goes
\* on.  (Calls stop before the generation of a key reaches its cap.)
Awaited == \A i \in Slots : procs[i].org \notin {"user", "mutate"}
Room == \A k \in AllKeys : GenOr0(refreshGenerations, k) + 2 <= MaxGen
Hanging(k) == \E i \in Slots : procs[i].pc = "rf_fetch" /\ procs[i].key = k

NextHang ==
  \/ init
  \/ \E k \in Keys : Awaited /\ Room /\ set_call(k, "v1", TTL, PlainFetcher)
  \/ \E i \in Slots : set_ready(i)
  \/ \E i \in Slots : set_persisted(i)
  \/ \E k \in K1 : refresh_call(k)
  \/ \E k \in Keys : Awaited /\ Room /\ get_call(k, TRUE, FALSE)
  \/ \E i \in Slots : get_ready(i)
  \/ \E i \in Slots : get_persisted(i)
  \/ \E k \in Keys : Awaited /\ Room /\ remove_call(k)
  \/ \E i \in Slots : remove_done(i)
  \/ \E k \in Keys : Awaited /\ Room /\ mutate_call(k)
  \/ \E i \in Slots : mutate_got(i)
  \/ \E i \in Slots : mutate_resolved(i)
  \/ \E i \in Slots : mutate_applied(i)
  \/ Awaited /\ Room /\ clear_call
  \/ \E i \in Slots : clear_ready(i)
  \/ \E i \in Slots : clear_done(i)

Continues ==
  \/ init
  \/ \E i \in Slots :
       \/ set_ready(i) \/ set_persisted(i) \/ get_ready(i) \/ get_persisted(i)
       \/ remove_done(i) \/ mutate_got(i) \/ mutate_resolved(i) \/ mutate_applied(i)
       \/ clear_ready(i) \/ clear_done(i)

SpecHang == Init /\ [][NextHang]_vars /\ WF_vars(Continues)

\* C21: while a refresher hangs, every call of the application that has been
\* started, on the key of the refresher or on another key, runs to its end.
C21_HangingRefresherBlocksNothing ==
  \A i \in Slots : (procs[i].org \in {"user", "mutate"} /\ Hanging("a"))
                     ~> procs[i].org \notin {"user", "mutate"}

\* a call on the key of the hanging refresher has come to its end
C21_Witness ==
  /\ Hanging("a") /\ obs.ev = "get" /\ obs.key = "a" /\ obs.val # Null

\* ------------------------------------------------- the snapshot delivered
\* The application sets and removes two keys, each call awaited before the
\* next, without refreshers; the clock stands still, so nothing expires, and
\* maxSize is null, so nothing is evicted.  A callback listens to the whole cache.
NextSnapshot ==
  \/ init
  \/ \E k \in Keys, v \in UserVals : Sequential /\ set_call(k, v, TTL, NoFetcher)
  \/ \E i \in Slots : set_ready(i)
  \/ \E i \in Slots : set_persisted(i)
  \/ \E k \in Keys : Sequential /\ remove_call(k)
  \/ \E i \in Slots : remove_done(i)
  \/ unsubscribers = <<>> /\ subscribe("f")

SpecSnapshot == Init /\ [][NextSnapshot]_vars

\* key -> the value of its last set(), for the keys whose last call was a set()
LastSets == [k \in AllKeys |-> IF kept[k] = NoKeep THEN Undefined ELSE kept[k].val]

\* C22: every snapshot delivered to a whole-cache subscriber maps exactly the
\* keys whose last call was a set to the value of that set.
C22_SnapshotIsLastSets ==
  \A n \in 1..Len(told) : told[n].key = Null => told[n].arg = LastSets

\* set(a, .), set(b, v2), remove(a) were awaited: the snapshot is {b: v2}
C22_Witness ==
  /\ "remove" \in completed /\ told # <<>>
  /\ told[1].arg["a"] = Undefined /\ told[1].arg["b"] = "v2"

\* ------------------------------------------------------- size and keys
\* (mutant) size() counts every entry
MutSize(E, includeExpired) == jarSize(E.jar)

\* size({ includeExpired }), lines 644-651
size(E, includeExpired) ==
  IF includeExpired THEN jarSize(E.jar)
  ELSE Cardinality({k \in AllKeys : Present(E.jar, k) /\ now < E.jar[k].expiry})

\* keys(), line 652
keys(E) == jarKeys(E.jar)

\* the application asks size(), size({includeExpired: true}) and keys()
size_asked ==
  /\ ~destroyed
  /\ Commit([Cur EXCEPT !.obs = Event("size", Null,
                                      [size |-> size(Cur, FALSE),
                                       all |-> size(Cur, TRUE),
                                       keys |-> Cardinality(keys(Cur))])])

\* An application that sets, gets and removes two keys while time passes, and
\* asks for the size and the keys.
NextSize ==
  \/ init
  \/ tick
  \/ \E k \in Keys : Sequential /\ set_call(k, "v1", TTL, NoFetcher)
  \/ \E i \in Slots : set_ready(i)
  \/ \E i \in Slots : set_persisted(i)
  \/ \E k \in Keys : Sequential /\ remove_call(k)
  \/ \E i \in Slots : remove_done(i)
  \/ \E k \in Keys : Sequential /\ get_call(k, FALSE, FALSE)
  \/ \E i \in Slots : get_ready(i)
  \/ \E i \in Slots : get_removed(i)
  \/ Sequential /\ size_asked

SpecSize == Init /\ [][NextSize]_vars

SetCalled(i) ==
  /\ procs[i].pc = "idle"
  /\ procs'[i].pc = "set_ready" /\ procs'[i].org = "user"

\* the timeout of key that is pending
PendingTimers(k) == {t \in timerQueue : t.key = k}

\* C24: when set(k) reaches its first suspension point the generation of k is
\* greater than it was at the call, and no timeout of k scheduled before the
\* call is pending any more.
C24_SetFencesFirst ==
  [][\A i \in Slots, k \in AllKeys :
       (SetCalled(i) /\ procs'[i].key = k) =>
         /\ GenOr0(refreshGenerations', k) > GenOr0(refreshGenerations, k)
         /\ PendingTimers(k) \cap PendingTimers(k)' = {}]_vars

\* the second half of C24 alone (side check)
C24_TimerPart ==
  [][\A i \in Slots, k \in AllKeys :
       (SetCalled(i) /\ procs'[i].key = k) =>
         PendingTimers(k) \cap PendingTimers(k)' = {}]_vars

\* ------------------------------------------- writes and the generation
\* An application that writes two keys, one call after the other, online and
\* offline, and forces refreshes.
NextGen ==
  \/ init
  \/ handleWentOffline
  \/ handleWentOnline
  \/ \E k \in Keys : Sequential /\ set_noted(k, "v1", TTL, PlainFetcher)
  \/ \E i \in Slots : set_ready(i)
  \/ \E i \in Slots : set_persisted(i)
  \/ \E k \in Keys : Sequential /\ remove_call(k)
  \/ \E i \in Slots : remove_done(i)
  \/ \E k \in Keys : Sequential /\ mutate_call(k)
  \/ \E i \in Slots : get_ready(i)
  \/ \E i \in Slots : mutate_got(i)
  \/ \E i \in Slots : mutate_resolved(i)
  \/ \E i \in Slots : mutate_applied(i)
  \/ Sequential /\ clear_call
  \/ \E i \in Slots : clear_ready(i)
  \/ \E i \in Slots : clear_done(i)
  \/ \E k \in Keys : Sequential /\ refresh_call(k)
  \/ \E i \in Slots : refresh_resolved(i)
  \/ \E i \in Slots : refresh_applied(i)

SpecGen == Init /\ [][NextGen]_vars

Generation(k) == GenOr0(refreshGenerations, k)

\* a set() of the application for k completes in this step; slot i held it
SetCompletes(i, k) ==
  /\ procs[i].org = "user" /\ procs[i].pc = "set_persist" /\ procs[i].key = k
  /\ procs'[i].pc = "idle" /\ "set" \in completed'

\* remove(k) deletes the entry of k in this step (lines 512-519)
RemoveDeletes(i, k) ==
  /\ procs[i].pc = "idle" /\ procs'[i].pc = "rm_db" /\ procs'[i].key = k

\* clear() deletes the entry of k in this step (lines 529-535)
ClearDeletes(i, k) ==
  /\ procs[i].pc = "idle" /\ procs'[i].pc \in {"clr_db", "clr_wait"}
  /\ Present(jar, k)

\* mutate(k) writes in this step: its generation check passed and it calls set()
\* (lines 491-498)
MutateWrites(i, k) ==
  /\ procs[i].pc = "mut_apply" /\ procs[i].key = k
  /\ \E j \in Slots : procs'[j].pc = "set_ready" /\ procs'[j].org = "mutate"

\* refresh(k) is forced in this step and calls its fetcher (lines 590-601)
RefreshForced(i, k) ==
  /\ procs[i].pc = "idle" /\ procs'[i].pc = "rf_fetch" /\ procs'[i].key = k

\* C25, sets: when a set(k) completes the generation of k is greater than it was
\* when the set was called.
C25_SetBumps ==
  [][\A i \in Slots, k \in AllKeys :
       SetCompletes(i, k) => Generation(k)' > procs[i].was]_vars

\* C25, remove and mutate: the generation of k increases with the write.
C25_RemoveMutateBump ==
  [][\A i \in Slots, k \in AllKeys :
       (RemoveDeletes(i, k) \/ MutateWrites(i, k)) => Generation(k)' > Generation(k)]_vars

\* C25, clear: the generation of every key clear() deletes increases.
C25_ClearBumps ==
  [][\A i \in Slots, k \in AllKeys :
       ClearDeletes(i, k) => Generation(k)' > Generation(k)]_vars

\* C25, forced refresh: the attempt takes a new generation.
C25_ForcedRefreshBumps ==
  [][\A i \in Slots, k \in AllKeys :
       RefreshForced(i, k) => Generation(k)' > Generation(k)]_vars

\* C25: the generation of k strictly increases on every completed set, mutate,
\* remove and clear of k and on every forced refresh attempt for k, online and
\* offline, with or without a generation recorded for k.
C25_WritesBumpGeneration ==
  [][\A i \in Slots, k \in AllKeys :
       /\ SetCompletes(i, k) => Generation(k)' > procs[i].was
       /\ (RemoveDeletes(i, k) \/ MutateWrites(i, k) \/ ClearDeletes(i, k)
             \/ RefreshForced(i, k))
            => Generation(k)' > Generation(k)]_vars

\* --------------------------------------------- the generation over time
\* An engine whose application sets, gets, mutates, removes, clears and
\* refreshes one key while time passes, the network comes and goes and peers
\* post messages.
NextEpoch ==
  \/ init
  \/ tick
  \/ handleWentOffline
  \/ handleWentOnline
  \/ \E k \in K1 : Sequential /\ set_call(k, "v1", TTL, PlainFetcher)
  \/ \E i \in Slots : set_ready(i)
  \/ \E i \in Slots : set_persisted(i)
  \/ \E k \in K1 : Sequential /\ get_call(k, FALSE, FALSE)
  \/ \E i \in Slots : get_ready(i)
  \/ \E i \in Slots : get_removed(i)
  \/ \E k \in K1 : Sequential /\ remove_call(k)
  \/ \E i \in Slots : remove_done(i)
  \/ \E k \in K1 : Sequential /\ mutate_call(k)
  \/ \E i \in Slots : mutate_got(i)
  \/ \E i \in Slots : mutate_resolved(i)
  \/ \E i \in Slots : mutate_applied(i)
  \/ Sequential /\ clear_call
  \/ \E i \in Slots : clear_ready(i)
  \/ \E i \in Slots : clear_done(i)
  \/ \E k \in K1 : refresh_call(k)
  \/ \E i \in Slots : refresh_resolved(i)
  \/ \E i \in Slots : refresh_applied(i)
  \/ \E t \in timerQueue : timer_fired(t)
  \/ \E m \in PeerMessages(K1) : onmessage(m)

SpecEpoch == Init /\ [][NextEpoch]_vars

\* C26: the generation of a key never decreases, and a key that has a
\* generation never loses it: a value the key has left is never taken again.
C26_GenerationNeverDecreases ==
  [][\A k \in AllKeys :
       /\ Generation(k)' >= Generation(k)
       /\ refreshGenerations[k] # Undef => refreshGenerations'[k] # Undef]_vars

\* a set completes on a key whose generation has grown three times
C26_Witness ==
  /\ "set" \in completed /\ Present(jar, "a") /\ Generation("a") = 3

\* ------------------------------------------ mutate against deletions
\* a mutator is being evaluated
Evaluating == \E i \in Slots : procs[i].pc = "mut_eval"

\* An application that sets and mutates one key, one call after the other.  While
\* the mutator is evaluated the key is deleted: by remove, by clear, by a get
\* that finds it expired, by the sweep or by a message of a peer.
NextReborn ==
  \/ init
  \/ tick
  \/ handleWentOffline
  \/ handleWentOnline
  \/ \E k \in K1 : Sequential /\ set_call(k, "v1", TTL, NoFetcher)
  \/ \E i \in Slots : set_ready(i)
  \/ \E i \in Slots : set_persisted(i)
  \/ \E k \in K1 : Sequential /\ mutate_call(k)
  \/ \E i \in Slots : get_ready(i)
  \/ \E i \in Slots : mutate_got(i)
  \/ \E i \in Slots : mutate_resolved(i)
  \/ \E i \in Slots : mutate_applied(i)
  \/ \E k \in K1 : Evaluating /\ remove_call(k)
  \/ \E i \in Slots : remove_done(i)
  \/ Evaluating /\ clear_call
  \/ \E i \in Slots : clear_done(i)
  \/ \E k \in K1 : Evaluating /\ get_call(k, FALSE, FALSE)
  \/ \E i \in Slots : get_removed(i)
  \/ Evaluating /\ gc_fired
  \/ \E i \in Slots : gc_removed(i)
  \/ \E k \in K1 : Evaluating /\ onmessage(Message(k, NullEntry))

SpecReborn == Init /\ [][NextReborn]_vars

\* mutate(k) resumes after its mutator in this step (line 490)
MutateResumes(i, k) ==
  /\ procs[i].pc = "mut_apply" /\ procs[i].key = k
  /\ procs'[i] # procs[i]

\* C27: a mutate whose key was deleted while its mutator was evaluated does not
\* write: it calls no set(), and the key stays absent.
C27_MutateLeavesDeleted ==
  [][\A i \in Slots, k \in AllKeys :
       (MutateResumes(i, k) /\ ~Present(jar, k))
         => (~MutateWrites(i, k) /\ ~Present(jar', k))]_vars

\* ------------------------------------- inbound messages and generations
\* a message about k is handled in this step and changes the entry of k
MessageChanges(k) ==
  /\ obs'.ev = "message" /\ obs'.key = k
  /\ jar'[k] # jar[k]

\* refresh(k) resumes after its fetcher in this step and writes: it calls set()
RefreshWrites(i, k) ==
  /\ procs[i].pc = "rf_apply" /\ procs[i].key = k
  /\ procs'[i].pc = "set_ready" /\ procs'[i].org = "refresh"

\* C28: handling a message that changes or deletes k bumps the generation of k.
C28_MessageBumpsGeneration ==
  [][\A k \in AllKeys : MessageChanges(k) => Generation(k)' > Generation(k)]_vars

\* the consequence C28 draws, for refresh (side check): a refresh that resumes on
\* a key a message has deleted does not write (line 606)
C28_RefreshLeavesDeleted ==
  [][\A i \in Slots, k \in AllKeys : ~Present(jar, k) => ~RefreshWrites(i, k)]_vars

\* ------------------------------------------------- messages stay local
\* the message entry m says what the local entry e holds
SameEntry(e, m) ==
  /\ e.value = m.value /\ e.expiry = m.expiry /\ e.ttl = m.ttl
  /\ IF Truthy(e.fetcherId) THEN m.fetcherId = e.fetcherId ELSE ~Truthy(m.fetcherId)

\* a message is handled in this step
MessageHandled == obs'.ev = "message"

\* the step posts nothing, leaves the store alone and starts no eviction
StaysLocal ==
  /\ channel' = channel /\ db' = db /\ dbq' = dbq
  /\ \A i \in Slots : procs'[i].pc \in {"set_evict", "rm_db"} => procs'[i] = procs[i]

\* C29, first half: handling a message posts nothing, leaves the store alone
\* and evicts nothing.
C29_MessagesStayLocal == [][MessageHandled => StaysLocal]_vars

\* C29: handling a message posts nothing, leaves the store alone and evicts
\* nothing; a message {key, entry} whose entry equals the local one changes
\* nothing and calls no subscriber.
C29_MessagesAreQuiet ==
  [][MessageHandled =>
       /\ StaysLocal
       /\ \A k \in AllKeys :
            (/\ obs'.key = k /\ obs'.val.entry # NullEntry
             /\ Present(jar, k) /\ SameEntry(jar[k], obs'.val.entry))
              => (jar' = jar /\ "inbound" \notin completed')]_vars

\* ------------------------------------------ the identity of a refresher
\* An application that sets one key with an identified refresher {fn, id}, and
\* renews it: by scheduled and forced refreshes, by mutate and by extending gets.
NextIdentity ==
  \/ init
  \/ tick
  \/ \E k \in K1 : Sequential /\ set_call(k, "v1", TTL, IdFetcher)
  \/ \E i \in Slots : set_ready(i)
  \/ \E i \in Slots : set_persisted(i)
  \/ \E k \in K1 : Sequential /\ refresh_call(k)
  \/ \E t \in timerQueue : timer_fired(t)
  \/ \E i \in Slots : refresh_resolved(i)
  \/ \E i \in Slots : refresh_applied(i)
  \/ \E k \in K1 : Sequential /\ mutate_call(k)
  \/ \E i \in Slots : mutate_got(i)
  \/ \E i \in Slots : mutate_resolved(i)
  \/ \E i \in Slots : mutate_applied(i)
  \/ \E k \in K1 : Sequential /\ get_call(k, TRUE, FALSE)
  \/ \E i \in Slots : get_ready(i)
  \/ \E i \in Slots : get_removed(i)
  \/ \E i \in Slots : get_persisted(i)

SpecIdentity == Init /\ [][NextIdentity]_vars

\* a renewal of k writes the entry and the record in this step: the set() of a
\* refresh or of a mutate (lines 408-429), or a get that extends (lines 465-466)
RenewalWrites(i, k) ==
  /\ procs[i].key = k
  /\ \/ /\ procs[i].pc = "set_ready" /\ procs[i].org # "user"
        /\ procs'[i].pc = "set_persist"
     \/ procs[i].pc = "get_ready" /\ procs'[i].pc = "get_persist"

\* the set() of a renewal of k posts its message in this step (line 430)
RenewalPosts(i, k) ==
  /\ procs[i].key = k /\ procs[i].pc = "set_persist" /\ procs[i].org # "user"
  /\ channel' # channel

\* the record of k carries a refresher id
Identified(k) == Present(db, k) /\ Truthy(db[k].fetcherId)

\* C30: a renewal of a key whose record carries a refresher id leaves the id in
\* the record, has it in the entry and in the message, and leaves the function
\* bound.
C30_RenewalKeepsIdentity ==
  [][\A i \in Slots, k \in AllKeys :
       /\ (RenewalWrites(i, k) /\ Identified(k))
            => /\ db'[k].fetcherId = db[k].fetcherId
               /\ jar'[k].fetcherId = db[k].fetcherId
               /\ refreshers'[k] = FetcherFn
       /\ RenewalPosts(i, k) => channel'.entry.fetcherId = FetcherId]_vars

\* C30, the function alone (side check): a renewal leaves the function bound
C30_RenewalKeepsFunction ==
  [][\A i \in Slots, k \in AllKeys :
       (RenewalWrites(i, k) /\ Identified(k)) => refreshers'[k] = FetcherFn]_vars

\* ------------------------------------------------- the index and the jar
\* the keys of the access-time index
IndexKeys(index) == {index[n].k : n \in 1..Len(index)}

\* An engine with maxSize whose store held n records at startup: init() has put
\* the n keys 1..n into the jar and into the index (lines 268-270), stamped with
\* the time of the load.
LoadedIndex(n) == [i \in 1..n |-> [k |-> i, t |-> 0]]

\* the table sizes the large engine is looked at with
BulkSizes == {TrimFloor - 1, TrimFloor, TrimFloor + 1}

\* That engine's application calls get(key) for one of its keys, or set(key) for
\* a new one: the jar holds the n keys and key, and touchKey has run (lines 409-410,
\* 442-446).  Shown: the number of keys of the jar and of the index.
bulk_touched(n, key) ==
  /\ ~destroyed /\ loaded /\ maxSize # 0
  /\ Commit([Cur EXCEPT !.obs =
       Event("touch", Null,
             [jar |-> Cardinality((1..n) \cup {key}),
              index |-> Cardinality(IndexKeys(touchIndex(LoadedIndex(n), key, now,
                                                          maxSize)))])])

\* An engine with maxSize 1 over a store with one record, whose application
\* sets, gets, mutates, removes and clears two keys while time passes, the sweep
\* runs and peers post messages.
InitIndex == CreatedOver(StoredRecord, 1, "ok")

NextIndex ==
  \/ init
  \/ tick
  \/ \E k \in Keys : Sequential /\ set_call(k, "v1", TTL, NoFetcher)
  \/ \E i \in Slots : set_ready(i)
  \/ \E i \in Slots : set_persisted(i)
  \/ \E i \in Slots : set_evicted(i)
  \/ \E k \in Keys : Sequential /\ get_call(k, FALSE, FALSE)
  \/ \E i \in Slots : get_ready(i)
  \/ \E i \in Slots : get_removed(i)
  \/ \E k \in K1 : Sequential /\ mutate_call(k)
  \/ \E i \in Slots : mutate_got(i)
  \/ \E i \in Slots : mutate_resolved(i)
  \/ \E i \in Slots : mutate_applied(i)
  \/ \E k \in K1 : Sequential /\ remove_call(k)
  \/ \E i \in Slots : remove_done(i)
  \/ Sequential /\ clear_call
  \/ \E i \in Slots : clear_done(i)
  \/ gc_fired
  \/ \E i \in Slots : gc_removed(i)
  \/ \E k \in K1 : onmessage(Message(k, NullEntry))

SpecIndex == InitIndex /\ [][NextIndex]_vars

\* The engine with a large table: its application sets and gets while time
\* passes.
NextBulk ==
  \/ init
  \/ tick
  \/ \E k \in K1 : Sequential /\ set_call(k, "v1", TTL, NoFetcher)
  \/ \E i \in Slots : set_ready(i)
  \/ \E i \in Slots : set_persisted(i)
  \/ \E k \in K1 : Sequential /\ get_call(k, FALSE, FALSE)
  \/ \E i \in Slots : get_ready(i)
  \/ \E i \in Slots : get_removed(i)
  \/ \E n \in BulkSizes : \E key \in {1, n + 1} : Sequential /\ bulk_touched(n, key)

SpecBulk == InitIndex /\ [][NextBulk]_vars

\* C31, the small engine (side check): the index and the jar hold the same keys
C31_SmallIndexIsJar == IndexKeys(accessTimestamps) = jarKeys(jar)

\* C31: in every state the keys of the access-time index are the keys of the
\* jar.
C31_IndexIsJar ==
  /\ IndexKeys(accessTimestamps) = jarKeys(jar)
  /\ obs.ev = "touch" => obs.val.index = obs.val.jar

\* ------------------------------------------- the sweep timer and the jar
\* C32: whenever no call is in flight, the sweep timer runs if and only if the
\* jar holds an entry.
C32_SweepTimerIffEntries ==
  Sequential => (gcTimer <=> jarSize(jar) > 0)

\* ------------------------------------------------- one timer for a key
\* the timeout timer runs in this step
TimerFires(timer) ==
  /\ timer \in timerQueue /\ timer \notin timerQueue'
  /\ obs'.ev = "timeout" /\ obs'.key = timer.key

\* a refresh of k resumes after its fetcher, or after the fetcher of its retry,
\* and calls set() (lines 611-617, 628-634)
RefreshApplies(i, k) ==
  /\ procs[i].pc \in {"rf_apply", "rt_apply"} /\ procs[i].key = k
  /\ procs'[i].pc = "set_ready"

\* what a refresh that returns at once leaves as it was
EngineUnchanged ==
  /\ jar' = jar /\ db' = db /\ channel' = channel /\ refreshers' = refreshers
  /\ refreshGenerations' = refreshGenerations /\ accessTimestamps' = accessTimestamps
  /\ \A i \in Slots : procs'[i].pc = procs[i].pc

\* C33, first half: a key has at most one timeout pending.
C33_OnePendingTimer == \A k \in AllKeys : Cardinality(PendingTimers(k)) <= 1

\* C33, second half: a timeout that runs for a key that is gone, or whose
\* generation is no more the one of the timeout, changes nothing; and a refresh
\* writes only a key that is there, under the generation it was started with.
C33_StaleTimerDoesNothing ==
  [][/\ \A t \in timerQueue :
          (TimerFires(t) /\ (~Present(jar, t.key) \/ refreshGenerations[t.key] # t.gen))
            => EngineUnchanged
     /\ \A i \in Slots, k \in AllKeys :
          RefreshApplies(i, k)
            => (Present(jar, k) /\ refreshGenerations[k] = procs[i].gen)]_vars

\* C33: a key has at most one timeout pending; a timeout that runs for a key
\* that is gone or whose generation has moved on changes nothing, and a refresh
\* writes only a present key under the generation it captured.
C33_TimersAreFenced == []C33_OnePendingTimer /\ C33_StaleTimerDoesNothing

\* the timeout of a key a message has deleted has run, and no refresh was started
C33_Witness ==
  /\ obs.ev = "timeout" /\ obs.key = "a" /\ ~Present(jar, "a")
  /\ \A i \in Slots : procs[i].pc # "rf_fetch"

\* ------------------------------------------------ when a refresh is due
\* the ttls the application of SpecDue passes to set()
DueTtls == {0, 1, TTL, 12}

\* An application that sets one key with a refresher and a ttl of its choice and
\* reads it with extending gets, while time passes and the timeouts run; one
\* call or refresh at a time.
NextDue ==
  \/ init
  \/ tick
  \/ \E k \in K1, t \in DueTtls : Sequential /\ set_call(k, "v1", t, PlainFetcher)
  \/ \E i \in Slots : set_ready(i)
  \/ \E i \in Slots : set_persisted(i)
  \/ \E k \in K1 : Sequential /\ get_call(k, TRUE, FALSE)
  \/ \E i \in Slots : get_ready(i)
  \/ \E i \in Slots : get_removed(i)
  \/ \E i \in Slots : get_persisted(i)
  \/ \E t \in timerQueue : Sequential /\ timer_fired(t)
  \/ \E i \in Slots : refresh_resolved(i)
  \/ \E i \in Slots : refresh_applied(i)
  \/ \E i \in Slots : refresh_failed(i)
  \/ \E i \in Slots : refresh_caught(i)
  \/ \E i \in Slots : retry_failed(i)

SpecDue == Init /\ [][NextDue]_vars

\* the timeouts this step has set
NewTimers == timerQueue' \ timerQueue

\* a refresh of k is started in this step
RefreshStarts(k) ==
  \E j \in Slots : procs[j].pc = "idle" /\ procs'[j].pc = "rf_fetch" /\ procs'[j].key = k

\* the set() of slot i for k ends in this step, with the refresh of k to schedule
SetSchedules(i, k) ==
  /\ SetCompletes(i, k) /\ online /\ Present(jar', k) /\ refreshers'[k] # Null

\* C34 as the specification states it: a timeout is due at e - floor(0.1 * t) for
\* the expiry e and the ttl t of the entry, not later than e; a set() schedules
\* its key or refreshes it at once; with ttl >= 1 it never refreshes it at once.
C34_Original ==
  [][/\ \A t \in NewTimers :
          LET e == jar'[t.key] IN
            /\ t.due = e.expiry - Margin(Num(e.ttl))
            /\ t.due <= e.expiry
     /\ \A i \in Slots, k \in AllKeys :
          SetSchedules(i, k) =>
            /\ (\E t \in NewTimers : t.key = k) \/ RefreshStarts(k)
            /\ Num(procs[i].ttl) >= 1 => ~RefreshStarts(k)]_vars

\* C34: a timeout is due at e - floor(0.1 * t) for the expiry e of the entry and
\* its ttl t, or 300000 for a ttl of 0 or none; that is not later than e and
\* later than now.  A set() schedules its key or refreshes it at once, and it
\* refreshes at once exactly when that instant is not later than now.
C34_RefreshDueBeforeExpiry ==
  [][/\ \A t \in NewTimers :
          LET e == jar'[t.key] IN
            /\ t.due = e.expiry - Margin(TtlOrDefault(e.ttl))
            /\ t.due <= e.expiry
            /\ t.due > now
     /\ \A i \in Slots, k \in AllKeys :
          SetSchedules(i, k) =>
            /\ (\E t \in NewTimers : t.key = k) \/ RefreshStarts(k)
            /\ RefreshStarts(k)
                 <=> procs[i].exp - Margin(TtlOrDefault(procs[i].ttl)) <= now]_vars

\* a set() with ttl 12 has scheduled the refresh of its key one millisecond
\* before the expiry
C34_Witness ==
  /\ "set" \in completed
  /\ \E t \in timerQueue : t.key = "a" /\ Present(jar, "a") /\ jar["a"].ttl = 12
                           /\ t.due = jar["a"].expiry - 1

\* ------------------------------------------------ the byte bound (V2)
\* biscuitV2.js, constructed with maxBytes and no maxSize.
MaxBytes == 8
MaxTotal == 16        \* set() is not called with the running total past this
V2Vals == {"v", "value"}

\* The UTF-8 length of JSON.stringify(value): a string of ASCII letters and
\* its two quotes; JSON.stringify(undefined) is undefined, which encodes as "".
MutApproximateSize(value) == 0
approximateSize(value) == IF value = Undefined THEN 0 ELSE Len(value) + 2

RECURSIVE SumOver(_, _)
SumOver(j, ks) == IF ks = {} THEN 0
                  ELSE LET k == CHOOSE x \in ks : TRUE
                       IN approximateSize(j[k].value) + SumOver(j, ks \ {k})
\* the sum of the approximate sizes of the values in the table
TableBytes(j) == SumOver(j, jarKeys(j))

FreeV2(B) == {i \in Slots : B.calls[i].pc = "idle"}
AwaitV2(B, i, pc, key) == [B EXCEPT !.calls[i] = [pc |-> pc, key |-> key],
                                    !.queue = Append(Without(@, i), i)]
EndV2(B, i, how) == [B EXCEPT !.calls[i] = IdleV2, !.queue = Without(@, i),
                              !.done = how]

\* remove(key) up to line 138, where the undeclared refreshGenerations throws
\* a ReferenceError: the byte total and the adapter are not reached.
removeV2(B, key) == [B EXCEPT !.jar[key] = NoEntry,
                              !.accessTimestamps = MapDelete(@, key)]

\* clear() up to line 156, which throws in the same way.
clearV2(B) == [B EXCEPT !.jar = [k \in AllKeys |-> NoEntry],
                        !.accessTimestamps = <<>>]

\* set(key, value) up to its first await: lines 67-87.
setV2(B, i, key, value) ==
  LET oldEntry == B.jar[key]
      oldSize == IF oldEntry = NoEntry THEN 0 ELSE approximateSize(oldEntry.value)
      entry == [value |-> value, expiry |-> now + TTL, ttl |-> TTL]
      B1 == [B EXCEPT !.jar[key] = entry,
                      !.totalBytes = @ + approximateSize(value) - oldSize,
                      !.accessTimestamps = MapSet(@, key, now),
                      !.store[key] = entry]
  IN AwaitV2(B1, i, "stored", key)

\* enforceMaxBytesIfNeeded() as set() awaits it: within the bound it returns;
\* past it, the size of the least recently touched entry is subtracted and
\* remove() is called, whose exception ends the set.
enforceMaxBytesIfNeeded(B, i) ==
  LET items == SortAsc(B.accessTimestamps)
  IN IF B.totalBytes <= MaxBytes \/ items = <<>>
     THEN AwaitV2(B, i, "bounded", B.calls[i].key)
     ELSE LET oldestKey == items[1].k
              removed == B.jar[oldestKey]
          IN IF removed = NoEntry THEN EndV2(B, i, "set_threw")
             ELSE EndV2(removeV2([B EXCEPT !.totalBytes =
                                     @ - approximateSize(removed.value)],
                                 oldestKey), i, "evicted")

StepV2(B) == /\ biscuitV2' = B
             /\ UNCHANGED <<now, loaded, maxSize, jar, accessTimestamps, refreshers,
                            fetcherRegistry, refreshGenerations, refreshTimers,
                            timerQueue, gcTimer, online, destroyed, db, idb, channel,
                            procs, micro, dbq, subscribers, keySubscribers, setForKey,
                            unsubscribers, peer, told, completed, recency, kept, obs>>

v2_set_call(key, value) ==
  /\ ~biscuitV2.destroyed
  /\ FreeV2(biscuitV2) # {}
  /\ biscuitV2.totalBytes <= MaxTotal
  /\ LET i == CHOOSE n \in FreeV2(biscuitV2) : \A m \in FreeV2(biscuitV2) : n <= m
     IN StepV2(setV2([biscuitV2 EXCEPT !.done = "none"], i, key, value))

\* after await adapter.set(): enforceMaxSizeIfNeeded() returns, maxSize is null
v2_set_stored(i) ==
  /\ biscuitV2.queue # <<>> /\ Head(biscuitV2.queue) = i
  /\ biscuitV2.calls[i].pc = "stored"
  /\ StepV2(AwaitV2([biscuitV2 EXCEPT !.done = "none"], i, "sized",
                    biscuitV2.calls[i].key))

v2_set_sized(i) ==
  /\ biscuitV2.queue # <<>> /\ Head(biscuitV2.queue) = i
  /\ biscuitV2.calls[i].pc = "sized"
  /\ StepV2(enforceMaxBytesIfNeeded([biscuitV2 EXCEPT !.done = "none"], i))

\* notify(key) and scheduleRefresh(key, expiry), which returns: no refresher
v2_set_bounded(i) ==
  /\ biscuitV2.queue # <<>> /\ Head(biscuitV2.queue) = i
  /\ biscuitV2.calls[i].pc = "bounded"
  /\ StepV2(EndV2(biscuitV2, i, "set"))

v2_remove(key) ==
  /\ ~biscuitV2.destroyed                                 \* ensureNotDestroyed()
  /\ StepV2([removeV2(biscuitV2, key) EXCEPT !.done = "remove"])

v2_clear ==
  /\ ~biscuitV2.destroyed
  /\ StepV2([clearV2(biscuitV2) EXCEPT !.done = "clear"])

NextBytes ==
  \/ tick
  \/ \E key \in Keys, value \in V2Vals : v2_set_call(key, value)
  \/ \E i \in Slots : v2_set_stored(i)
  \/ \E i \in Slots : v2_set_sized(i)
  \/ \E i \in Slots : v2_set_bounded(i)
  \/ \E key \in Keys : v2_remove(key)
  \/ v2_clear

SpecBytes == Init /\ [][NextBytes]_vars

QuietV2 == \A i \in Slots : biscuitV2.calls[i].pc = "idle"

\* C35, first half: with no call in flight the running byte total is the sum
\* of the approximate sizes of the values in the table.
C35_TotalIsTableBytes == QuietV2 => biscuitV2.totalBytes = TableBytes(biscuitV2.jar)

\* C35, second half: when a set has completed and no other call is in flight
\* the total is within maxBytes or the table is empty.
C35_SetKeepsBound ==
  QuietV2 /\ biscuitV2.done = "set" =>
    biscuitV2.totalBytes <= MaxBytes \/ jarKeys(biscuitV2.jar) = {}

\* C35: with a byte bound the running byte total equals the sum of the
\* approximate sizes of the values in the table after any sequence of completed
\* set, remove, clear and eviction steps, and after a set completes the total is
\* at most maxBytes or the table is empty.
C35_ByteTotalIsExact == C35_TotalIsTableBytes /\ C35_SetKeepsBound

\* ------------------------------------------------------- has against get
\* The step in which a get(k) of the application without stale-while-revalidate
\* runs its body (lines 442-470): it reads the clock once, as has(k) would.
GetRuns(i, k) ==
  /\ procs[i].pc = "get_ready" /\ procs[i].key = k
  /\ procs[i].org = "user" /\ ~procs[i].swr
  /\ procs'[i].pc # "get_ready"
  /\ ~Rejected

\* C36, away from the instant of expiry: has(k) tells whether get(k) keeps
\* the entry and returns its value.
C36_AgreeOffExpiry ==
  [][\A i \in Slots, k \in AllKeys :
       GetRuns(i, k) /\ Present(jar, k) /\ now # jar[k].expiry =>
         (has(jar, k) <=> Present(jar', k))]_vars

\* C36: has(k) and get(k) agree at every clock value, the instant now = expiry
\* included: has(k) is true exactly when a get(k) without
\* stale-while-revalidate returns a value rather than removing the entry.
C36_HasAgreesWithGet ==
  [][\A i \in Slots, k \in AllKeys :
       GetRuns(i, k) => (has(jar, k) <=> Present(jar', k))]_vars

\* --------------------------------------------------- mutate among reads
\* An engine whose application sets and mutates one key, one call at a time,
\* and reads the key while the mutator is evaluated: get with and without
\* extend.  No write, removal or refresh of the key happens meanwhile: no
\* timeout runs.
NextReads ==
  \/ init
  \/ tick
  \/ \E k \in K1 : Sequential /\ set_call(k, "v1", TTL, NoFetcher)
  \/ \E i \in Slots : set_ready(i)
  \/ \E i \in Slots : set_persisted(i)
  \/ \E k \in K1 : Sequential /\ mutate_call(k)
  \/ \E i \in Slots : mutate_got(i)
  \/ \E i \in Slots : mutate_resolved(i)
  \/ \E i \in Slots : mutate_applied(i)
  \/ \E k \in K1, extend \in BOOLEAN : Evaluating /\ get_call(k, extend, FALSE)
  \/ \E i \in Slots : get_ready(i)
  \/ \E i \in Slots : get_removed(i)
  \/ \E i \in Slots : get_persisted(i)

SpecReads == Init /\ [][NextReads]_vars

\* the set() that mutate(k) called completes in this step
MutateCompletes(i, k) ==
  /\ procs[i].org = "mutate" /\ procs[i].pc = "set_persist" /\ procs[i].key = k
  /\ procs'[i].pc = "idle"

\* C37, the second half alone: when the set() of a mutate completes the key
\* holds the mutator's result.
C37_AppliedIsKept ==
  [][\A i \in Slots, k \in AllKeys :
       MutateCompletes(i, k) => (Present(jar', k) /\ jar'[k].value = MutVal)]_vars

\* C37: a mutate whose mutator evaluation is interleaved only with reads of
\* the key is applied: when the mutator has resolved mutate calls set(), and
\* when that set() completes the key holds the mutator's result.
C37_ReadsLeaveMutate ==
  [][\A i \in Slots, k \in AllKeys :
       /\ MutateResumes(i, k) => MutateWrites(i, k)
       /\ MutateCompletes(i, k) => (Present(jar', k) /\ jar'[k].value = MutVal)]_vars

\* ------------------------------------------------------- kept fresh
\* a refresh of k is in flight: its fetcher, its retry or its set()
RefreshInFlight(k) ==
  \E i \in Slots : /\ procs[i].pc # "idle" /\ procs[i].key = k
                   /\ procs[i].org \in {"refresh", "retry"}

\* C38: while the engine is online, a key that is in the jar with a refresher
\* bound has a refresh timeout pending or a refresh in flight, whenever no call
\* of the application is in flight: after a successful refresh and after a
\* refresh abandoned on double failure alike, without further access to the key.
C38_KeptFresh ==
  \A k \in AllKeys :
    (loaded /\ online /\ Present(jar, k) /\ refreshers[k] # Null
       /\ \A i \in Slots : procs[i].pc = "idle" \/ procs[i].org \in {"refresh", "retry"})
      => (PendingTimers(k) # {} \/ RefreshInFlight(k))

\* --------------------------------------------------- the store and the jar
\* A single engine with maxSize 1 over a store that holds a record: its
\* application sets, reads with extend, mutates, removes and clears, while the
\* refresh timeouts and the sweep run.  No message of a peer arrives and the
\* store answers every request.
NextPersist ==
  \/ init
  \/ tick
  \/ \E k \in Keys : Sequential /\ set_call(k, "v1", TTL, PlainFetcher)
  \/ \E i \in Slots : set_ready(i)
  \/ \E i \in Slots : set_persisted(i)
  \/ \E i \in Slots : set_evicted(i)
  \/ \E k \in K1 : Sequential /\ get_call(k, TRUE, FALSE)
  \/ \E i \in Slots : get_ready(i)
  \/ \E i \in Slots : get_removed(i)
  \/ \E i \in Slots : get_persisted(i)
  \/ \E k \in K1 : Sequential /\ mutate_call(k)
  \/ \E i \in Slots : mutate_got(i)
  \/ \E i \in Slots : mutate_resolved(i)
  \/ \E i \in Slots : mutate_applied(i)
  \/ \E k \in K1 : remove_call(k)
  \/ \E i \in Slots : remove_done(i)
  \/ clear_call
  \/ \E i \in Slots : clear_ready(i)
  \/ \E i \in Slots : clear_done(i)
  \/ \E t \in timerQueue : timer_fired(t)
  \/ \E i \in Slots : refresh_resolved(i)
  \/ \E i \in Slots : refresh_applied(i)
  \/ gc_fired
  \/ \E i \in Slots : gc_removed(i)

SpecPersist == InitIndex /\ [][NextPersist]_vars

\* the record of k in the store is the entry of k in the jar
SameRecord(k) ==
  /\ Present(db, k) <=> Present(jar, k)
  /\ Present(jar, k) => /\ db[k].value = jar[k].value
                        /\ db[k].expiry = jar[k].expiry
                        /\ db[k].ttl = jar[k].ttl

\* C39: for a single engine, whenever no operation is in flight and no store
\* call has failed, the store holds the keys of the jar and each record carries
\* the value, expiry and ttl of the entry.
C39_StoreIsJar == (loaded /\ Sequential) => \A k \in AllKeys : SameRecord(k)

\* ---------------------------------------------------- mutate against writes
\* An engine whose application sets and mutates one key, online and offline.
NextMutate ==
  \/ init
  \/ tick
  \/ \E k \in K1, v \in UserVals : set_call(k, v, TTL, NoFetcher)
  \/ \E i \in Slots : set_ready(i)
  \/ \E i \in Slots : set_persisted(i)
  \/ \E k \in K1 : mutate_call(k)
  \/ \E i \in Slots : get_ready(i)
  \/ \E i \in Slots : get_removed(i)
  \/ \E i \in Slots : mutate_got(i)
  \/ \E i \in Slots : mutate_resolved(i)
  \/ \E i \in Slots : mutate_applied(i)
  \/ \E i \in Slots : mutate_rejected(i)
  \/ \E t \in timerQueue : timer_fired(t)
  \/ handleWentOnline
  \/ handleWentOffline

SpecMutate == Init /\ [][NextMutate]_vars

Applied(p) == p.org = "mutate" /\ p.pc \in {"set_ready", "set_persist", "set_evict"}

\* C2: a mutate whose mutator was in flight while a set() of the key was called
\* and completed is discarded: it never goes on to write the mutator's output.
C2_SetFencesMutate ==
  \A i \in Slots : ~(Applied(procs[i]) /\ "completed" \in procs[i].mark)

\* C4: of two mutates that read the same value of a key at most one is applied:
\* a mutate whose read value another mutate has overwritten is discarded.
C4_NoLostUpdate ==
  \A i \in Slots : ~(Applied(procs[i]) /\ "overlap" \in procs[i].mark)

Refreshing(p) == p.org \in {"refresh", "retry"}
Written(p) == p.pc \in {"set_persist", "set_evict"}

\* C1: a background refresh whose refresher was invoked before set(k, v2) was
\* called never writes its fetched value over v2: no refresh that saw the set()
\* write after its own fetcher was invoked goes on to write.
C1_RefreshNeverReplacesSet ==
  \A i \in Slots :
    ~(Refreshing(procs[i]) /\ "overwritten" \in procs[i].mark /\ Written(procs[i]))

\* C6: when the engine has handled the message a peer posts for its set(k, v),
\* the jar holds k with value v, and handling it wrote nothing to the store and
\* posted nothing.
C6_PeerSetReconciled ==
  (obs.ev = "message" /\ obs.val.entry # NullEntry) =>
    /\ Present(jar, obs.key) /\ jar[obs.key].value = obs.val.entry.value
    /\ obs.val.quiet

\* C3: a refresh in flight when remove(k) was called never writes k back, and a
\* timeout that was pending when remove(k) was called never runs.
C3_RemovedStaysRemoved ==
  /\ \A i \in Slots :
       ~(Refreshing(procs[i]) /\ "removed" \in procs[i].mark
         /\ procs[i].pc \in {"set_ready", "set_persist", "set_evict"})
  /\ ~(obs.ev = "timeout" /\ obs.val = TRUE)

====
